---- MODULE Spec2Model ----
(***************************************************************************)
(* WordDumb EPUB annotator: the entity / lemma occurrence engine of        *)
(* src/epub.py (class EPUB) as a state machine.                            *)
(*                                                                         *)
(* Text is a sequence of symbols.  A symbol is a one-character string, or  *)
(* a whole markup tag ("<p>", "</head>", an inserted anchor ...) kept as   *)
(* one symbol: no offset of the program ever points inside a tag, since    *)
(* paragraph bounds lie right after a tag's ">" and right before the next  *)
(* tag's "<".  All offsets are 0-based, as in the Python source.           *)
(***************************************************************************)
EXTENDS Integers, Sequences, FiniteSets, TLC

\* ------------------------------------------------------------------ bounds

\* Cap on the number of add_entity / add_lemma calls before modify_epub.
MaxMentions == 4

\* Largest prefs["minimal_x_ray_count"] the environment hands to modify_epub.
MaxMinCount == 2

\* The add_entity calls of a run of the relational path.
MaxXRayMentions == 3

\* ------------------------------------------------------- sequence helpers

Min(a, b) == IF a < b THEN a ELSE b

Max(a, b) == IF a > b THEN a ELSE b

\* Python s[a:b] for 0 <= a, 0 <= b: clamped, empty when a >= b.
Slice(s, a, b) == SubSeq(s, a + 1, Min(b, Len(s)))

\* Python s[a:]
SliceFrom(s, a) == SubSeq(s, a + 1, Len(s))

RECURSIVE Flatten(_)
Flatten(ss) == IF ss = <<>> THEN <<>> ELSE Head(ss) \o Flatten(Tail(ss))

Range(s) == {s[i] : i \in 1..Len(s)}

\* Op(v), with v evaluated once before Op is applied (an operator's
\* arguments are otherwise evaluated at each use).
Strict(Op(_), v) == CHOOSE y \in {Op(x) : x \in {v}} : TRUE

\* ------------------------------------------------------ html.escape/unescape

\* html.escape(s, quote=True): & < > " ' are replaced, everything else kept.
EscapeChar(c) ==
    CASE c = "&" -> <<"&", "a", "m", "p", ";">>
      [] c = "<" -> <<"&", "l", "t", ";">>
      [] c = ">" -> <<"&", "g", "t", ";">>
      [] c = "\"" -> <<"&", "q", "u", "o", "t", ";">>
      [] c = "'" -> <<"&", "#", "x", "2", "7", ";">>
      [] OTHER -> <<c>>

escape(s) == Flatten([i \in 1..Len(s) |-> EscapeChar(s[i])])

\* The character references html.unescape resolves, over the model's
\* alphabet: the form after "&" and the character it stands for.  The forms
\* with ";" come first; html5 also lists amp, lt, gt, quot without ";" and
\* unescape falls back to the longest such prefix.
CharRefs ==
    << <<(<<"a", "m", "p", ";">>), "&">>,
       <<(<<"l", "t", ";">>), "<">>,
       <<(<<"g", "t", ";">>), ">">>,
       <<(<<"q", "u", "o", "t", ";">>), "\"">>,
       <<(<<"#", "x", "2", "7", ";">>), "'">>,
       <<(<<"#", "3", "9", ";">>), "'">>,
       <<(<<"a", "m", "p">>), "&">>,
       <<(<<"l", "t">>), "<">>,
       <<(<<"g", "t">>), ">">>,
       <<(<<"q", "u", "o", "t">>), "\"">> >>

\* Index in CharRefs of the first reference spelled by s from position i+1
\* (s[i] is "&"), 0 when none.
RefAt(s, i) ==
    LET hits == {k \in 1..Len(CharRefs) :
                    /\ i + Len(CharRefs[k][1]) <= Len(s)
                    /\ SubSeq(s, i + 1, i + Len(CharRefs[k][1])) = CharRefs[k][1]}
    IN  IF hits = {} THEN 0 ELSE CHOOSE k \in hits : \A j \in hits : k <= j

\* html.unescape(s).  A reference holds no "&", so the references of s
\* are those starting at its "&" symbols: refs[i] is the reference
\* starting at i (0: none), and the symbols after an "&" that starts a
\* reference are dropped with it.
UnescapeWith(s, refs) ==
    Flatten([i \in 1..Len(s) |->
                IF refs[i] # 0 THEN <<CharRefs[refs[i]][2]>>
                ELSE IF \E j \in 1..(i - 1) :
                            refs[j] # 0 /\ i <= j + Len(CharRefs[refs[j]][1])
                THEN <<>>
                ELSE <<s[i]>>])

unescape(s) ==
    Strict(LAMBDA t :
               Strict(LAMBDA refs : UnescapeWith(t, refs),
                      [i \in 1..Len(t) |-> IF t[i] = "&" THEN RefAt(t, i) ELSE 0]),
           s)

\* ------------------------------------------- rapidfuzz: token_set_ratio

\* Code-point order of the characters tokens are made of (sorted() of tokens).
CharOrder ==
    <<" ", "a", "b", "c", "d", "e", "f", "g", "h", "i", "j", "k", "l", "m",
      "n", "o", "p", "q", "r", "s", "t", "u", "v", "w", "x", "y", "z">>

CharRank(c) == CHOOSE i \in 1..Len(CharOrder) : CharOrder[i] = c

\* Python's str < str on two character sequences.
StrLess(a, b) ==
    \E i \in 1..(Min(Len(a), Len(b)) + 1) :
        /\ \A j \in 1..(i - 1) : a[j] = b[j]
        /\ \/ i > Len(a) /\ i <= Len(b)
           \/ i <= Len(a) /\ i <= Len(b) /\ CharRank(a[i]) < CharRank(b[i])

RECURSIVE SortedTokens(_)
SortedTokens(S) ==
    IF S = {} THEN <<>>
    ELSE LET m == CHOOSE t \in S : \A u \in S \ {t} : StrLess(t, u)
         IN  <<m>> \o SortedTokens(S \ {m})

\* " ".join(tokens)
RECURSIVE JoinTokens(_)
JoinTokens(ts) ==
    IF ts = <<>> THEN <<>>
    ELSE IF Len(ts) = 1 THEN ts[1]
    ELSE ts[1] \o <<" ">> \o JoinTokens(Tail(ts))

\* One row of the longest-common-subsequence table: acc holds the cells
\* already computed for character c of the first string.
RECURSIVE LcsRow(_, _, _, _)
LcsRow(c, b, prev, acc) ==
    IF Len(acc) > Len(b) THEN acc
    ELSE Strict(LAMBDA next : LcsRow(c, b, prev, next),
                Append(acc, IF c = b[Len(acc)] THEN prev[Len(acc)] + 1
                            ELSE Max(prev[Len(acc) + 1], acc[Len(acc)])))

RECURSIVE LcsRows(_, _, _, _)
LcsRows(a, b, i, prev) ==
    IF i > Len(a) THEN prev[Len(b) + 1]
    ELSE Strict(LAMBDA row : LcsRows(a, b, i + 1, row),
                LcsRow(a[i], b, prev, <<0>>))

LcsLen(a, b) ==
    Strict(LAMBDA x : Strict(LAMBDA y : LcsRows(x, y, 1, [j \in 1..(Len(y) + 1) |-> 0]),
                             b),
           a)

\* rapidfuzz Indel distance: insertions + deletions turning a into b.
IndelDistance(a, b) == Len(a) + Len(b) - 2 * LcsLen(a, b)

\* 100 - 100 * dist / lensum, in thousandths of a point (the lengths of the
\* model keep distinct scores at least 0.04 apart, so order and ties are
\* those of the floating-point scores).
NormSimilarity(dist, lensum) ==
    IF lensum > 0 THEN (100000 * (lensum - dist)) \div lensum ELSE 100000

\* token_set_ratio on two token sequences (the strings after
\* default_process and split()), in thousandths of a point.
TokenSetRatio(ta, tb) ==
    LET A == Range(ta)
        B == Range(tb)
        sect == JoinTokens(SortedTokens(A \cap B))
        ab == JoinTokens(SortedTokens(A \ B))
        ba == JoinTokens(SortedTokens(B \ A))
        sep == IF Len(sect) > 0 THEN 1 ELSE 0
        sect_ab_len == Len(sect) + sep + Len(ab)
        sect_ba_len == Len(sect) + sep + Len(ba)
        result == NormSimilarity(IndelDistance(ab, ba), sect_ab_len + sect_ba_len)
        sect_ab_ratio == NormSimilarity(sep + Len(ab), Len(sect) + sect_ab_len)
        sect_ba_ratio == NormSimilarity(sep + Len(ba), Len(sect) + sect_ba_len)
    IN  IF A = {} \/ B = {} THEN 0
        ELSE IF A \cap B # {} /\ (A \ B = {} \/ B \ A = {}) THEN 100000
        ELSE IF Len(sect) = 0 THEN result
        ELSE Max(result, Max(sect_ab_ratio, sect_ba_ratio))

\* ---------------------------------------- rapidfuzz: default_process, split

Lowers ==
    <<"a", "b", "c", "d", "e", "f", "g", "h", "i", "j", "k", "l", "m",
      "n", "o", "p", "q", "r", "s", "t", "u", "v", "w", "x", "y", "z">>

Uppers ==
    <<"A", "B", "C", "D", "E", "F", "G", "H", "I", "J", "K", "L", "M",
      "N", "O", "P", "Q", "R", "S", "T", "U", "V", "W", "X", "Y", "Z">>

Digits == {"0", "1", "2", "3", "4", "5", "6", "7", "8", "9"}

Lower(c) ==
    IF \E i \in 1..Len(Uppers) : Uppers[i] = c
    THEN Lowers[CHOOSE i \in 1..Len(Uppers) : Uppers[i] = c]
    ELSE c

IsAlnum(c) == c \in (Range(Lowers) \cup Range(Uppers) \cup Digits)

\* rapidfuzz.utils.default_process: lower case, every non-alphanumeric
\* character to a space (the strip that follows is subsumed by split()).
default_process(s) ==
    [i \in 1..Len(s) |-> IF IsAlnum(s[i]) THEN Lower(s[i]) ELSE " "]

\* str.split(): the maximal runs of non-space characters.
RECURSIVE SplitFrom(_, _, _)
SplitFrom(s, i, cur) ==
    IF i > Len(s) THEN (IF cur = <<>> THEN <<>> ELSE <<cur>>)
    ELSE IF s[i] = " "
         THEN (IF cur = <<>> THEN <<>> ELSE <<cur>>) \o SplitFrom(s, i + 1, <<>>)
         ELSE SplitFrom(s, i + 1, Append(cur, s[i]))

split(s) == SplitFrom(s, 1, <<>>)

\* partial(token_set_ratio, processor=default_process)
token_set_ratio(s1, s2) ==
    TokenSetRatio(split(default_process(s1)), split(default_process(s2)))

\* ------------------------------------------------------------ x_ray_share

\* Score (in points) a fuzzy match must reach.
FUZZ_THRESHOLD == 80

PERSON_LABELS == {"PERSON"}

CJK_LANGS == {"zh", "ja", "ko"}

\* Python's "part in full" on character sequences.
Contains(full, part) ==
    \E i \in 0..(Len(full) - Len(part)) : SubSeq(full, i + 1, i + Len(part)) = part

\* The new mention is a more complete name than the matched key: longer,
\* containing the key as a sub-name, with the same label.
is_full_name(partial_name, partial_label, full_name, full_label) ==
    /\ Len(partial_name) < Len(full_name)
    /\ Contains(full_name, partial_name)
    /\ partial_label = full_label

\* ------------------------------------------------------------- markup symbols

HtmlTag == "<html xmlns=\"http://www.w3.org/1999/xhtml\">"

HtmlEpubTag ==
    "<html xmlns=\"http://www.w3.org/1999/xhtml\" xmlns:epub=\"http://www.idpf.org/2007/ops\">"

XRayOpen(id) ==
    "<a class=\"x-ray\" epub:type=\"noteref\" href=\"x_ray.xhtml#" \o ToString(id) \o "\">"

WordWiseOpen(id) ==
    "<a class=\"wordwise\" epub:type=\"noteref\" href=\"word_wise.xhtml#"
        \o ToString(id) \o "\">"

RubyOpen(id) ==
    "<ruby class=\"wordwise\"><a epub:type=\"noteref\" href=\"word_wise.xhtml#"
        \o ToString(id) \o "\">"

AnchorClose == "</a>"

RubyMid == "</a><rp>(</rp><rt>"

RubyClose == "</rt><rp>)</rp></ruby>"

\* <style>{css_rules}</style> for the two optional rule blocks.
StyleTag(wordwise, links) ==
    "<style>"
        \o (IF wordwise
            THEN "body {line-height: 2.5;} ruby.wordwise {text-decoration: overline;} ruby.wordwise a {text-decoration: none;}"
            ELSE "")
        \o (IF links
            THEN "a.x-ray, a.wordwise, ruby.wordwise a {text-decoration: none; color: inherit;}"
            ELSE "")
        \o "</style>"

\* The tags of the source documents (one symbol each); a document that
\* was annotated before carries a style block.
SourceTags ==
    {HtmlTag, HtmlEpubTag, "<html>", "<head>", "</head>", "<body>", "</body>",
     "<p>", "</p>", "</html>"}
        \cup {StyleTag(wordwise, links) : wordwise, links \in BOOLEAN}

\* ------------------------------------------------------------ the documents

BarackObama ==
    <<"B", "a", "r", "a", "c", "k", " ", "O", "b", "a", "m", "a">>

Obama ==
    <<"O", "b", "a", "m", "a">>

MichelleObama ==
    <<"M", "i", "c", "h", "e", "l", "l", "e", " ", "O", "b", "a", "m", "a">>

Paris ==
    <<"P", "a", "r", "i", "s">>

ParisHilton ==
    <<"P", "a", "r", "i", "s", " ", "H", "i", "l", "t", "o", "n">>

Tom ==
    <<"T", "o", "m">>

Al ==
    <<"A", "l">>

ObamaFile ==
    <<HtmlTag, "<head>", "</head>", "<body>", "<p>", "B", "a", "r", "a",
      "c", "k", " ", "O", "b", "a", "m", "a", " ", "v", "i", "s", "i", "t",
      "e", "d", " ", "P", "a", "r", "i", "s", ".", " ", "O", "b", "a", "m",
      "a", " ", "s", "p", "o", "k", "e", ".", "</p>", "</body>", "</html>">>

TomFile ==
    <<HtmlTag, "<head>", "</head>", "<body>", "<p>", "T", "o", "m", " ",
      "&", "a", "m", "p", ";", " ", "\"", "A", "l", "\"", " ", "r", "u",
      "n", ".", "</p>", "<p>", "A", "l", " ", "r", "a", "n", " ", "R", "&",
      "a", "m", "p", ";", "D", ".", "</p>", "</body>", "</html>">>

MetFile ==
    <<HtmlTag, "<head>", "</head>", "<body>", "<p>", "O", "b", "a", "m",
      "a", " ", "m", "e", "t", " ", "M", "i", "c", "h", "e", "l", "l", "e",
      " ", "O", "b", "a", "m", "a", ".", "</p>", "</body>", "</html>">>

MetFile2 ==
    <<HtmlTag, "<head>", "</head>", "<body>", "<p>", "B", "a", "r", "a",
      "c", "k", " ", "O", "b", "a", "m", "a", " ", "m", "e", "t", " ", "O",
      "b", "a", "m", "a", ".", "</p>", "</body>", "</html>">>

HiltonFile ==
    <<HtmlTag, "<head>", "</head>", "<body>", "<p>", "P", "a", "r", "i",
      "s", " ", "i", "s", " ", "n", "o", "t", " ", "P", "a", "r", "i", "s",
      " ", "H", "i", "l", "t", "o", "n", ".", "</p>", "</body>", "</html>">>

\* A document annotated by an earlier run: it has the epub namespace and
\* the style block of the Word Wise rules.
StyledFile ==
    <<HtmlEpubTag, "<head>", StyleTag(TRUE, FALSE), "</head>", "<body>", "<p>",
      "P", "a", "r", "i", "s", " ", "i", "s", ".", "</p>", "</body>", "</html>">>

\* A document without a head element and without the xhtml namespace.
BareFile ==
    <<"<html>", "<body>", "<p>", "T", "o", "m", " ", "r", "a", "n", ".", "</p>",
      "</body>", "</html>">>

Lemma_visit_VERB ==
    <<"v", "i", "s", "i", "t", "_", "V", "E", "R", "B">>

Lemma_speak_VERB ==
    <<"s", "p", "e", "a", "k", "_", "V", "E", "R", "B">>

Lemma_run_VERB ==
    <<"r", "u", "n", "_", "V", "E", "R", "B">>

Lemma_RnD_NOUN ==
    <<"R", "&", "D", "_", "N", "O", "U", "N">>

Lemma_meet ==
    <<"m", "e", "e", "t">>

Lemma_run ==
    <<"r", "u", "n">>

Lemma_be ==
    <<"b", "e">>

Gloss_go ==
    <<"g", "o">>

Gloss_see ==
    <<"s", "e", "e">>

Gloss_talk ==
    <<"t", "a", "l", "k">>

Gloss_research ==
    <<"r", "e", "s", "e", "a", "r", "c", "h", " ", "&", " ", "d", "e", "v",
      "e", "l", "o", "p", "m", "e", "n", "t">>

Gloss_come_across ==
    <<"c", "o", "m", "e", " ", "a", "c", "r", "o", "s", "s">>

Gloss_exist ==
    <<"e", "x", "i", "s", "t">>


\* ---------------------------------------------------- the dictionary datastore

\* The senses of the Word Wise database: one row per (lemma, pos).
SensesFull ==
    {[lemma |-> Lemma_run, pos |-> "verb", short_def |-> Gloss_go, enabled |-> 1],
     [lemma |-> <<"v", "i", "s", "i", "t">>, pos |-> "verb", short_def |-> Gloss_see,
      enabled |-> 1],
     [lemma |-> <<"s", "p", "e", "a", "k">>, pos |-> "verb", short_def |-> Gloss_talk,
      enabled |-> 1],
     [lemma |-> <<"R", "&", "D">>, pos |-> "noun", short_def |-> Gloss_research,
      enabled |-> 1],
     [lemma |-> Lemma_meet, pos |-> "verb", short_def |-> Gloss_come_across,
      enabled |-> 1],
     [lemma |-> <<"i", "s">>, pos |-> "verb", short_def |-> Gloss_exist, enabled |-> 1]}

FormsFull == {[form |-> Lemma_be, lemma |-> <<"i", "s">>, pos |-> "verb"]}

\* A database without rows for run, visit and meet, and without forms.
SensesSparse ==
    {r \in SensesFull :
        r.lemma \notin {Lemma_run, <<"v", "i", "s", "i", "t">>, Lemma_meet}}

\* The databases a run may be handed (lemmas_conn).
DictChoices ==
    {[senses |-> SensesFull, forms |-> FormsFull],
     [senses |-> SensesSparse, forms |-> {}]}

NoConn == [senses |-> {}, forms |-> {}]

\* A database that has every row but the one for R&D.
DictWithoutRnD ==
    [senses |-> {r \in SensesFull : r.lemma # <<"R", "&", "D">>},
     forms |-> FormsFull]

\* The names the knowledge base has an introduction for.
KnowledgeBase == {Paris, Tom}

\* ------------------------------------------------------------------ the books

\* A book: its XHTML files as extracted, the preferences the tagger ran
\* with, and what the tagger reports, in reading order: entity mentions
\* (ents) and lemma mentions (lems), each at a word span of a paragraph.
Books ==
    << [files |-> <<ObamaFile>>, use_pos |-> TRUE, lemma_lang |-> "en",
        customs |-> {<<>>, [n \in {Obama} |-> "the 44th president"]},
        ents |-> << [entity |-> BarackObama, label |-> "PERSON", quote |-> "q1",
                     path |-> 1, par |-> 1, ws |-> 0, we |-> 12],
                    [entity |-> Paris, label |-> "GPE", quote |-> "q2",
                     path |-> 1, par |-> 1, ws |-> 21, we |-> 26],
                    [entity |-> Obama, label |-> "PERSON", quote |-> "q3",
                     path |-> 1, par |-> 1, ws |-> 28, we |-> 33] >>,
        lems |-> << [lemma |-> Lemma_visit_VERB, path |-> 1, par |-> 1,
                     ws |-> 13, we |-> 20],
                    [lemma |-> Lemma_speak_VERB, path |-> 1, par |-> 1,
                     ws |-> 34, we |-> 39] >>],
       [files |-> <<TomFile>>, use_pos |-> TRUE, lemma_lang |-> "en",
        customs |-> {<<>>},
        ents |-> << [entity |-> Tom, label |-> "PERSON", quote |-> "q1",
                     path |-> 1, par |-> 1, ws |-> 0, we |-> 3],
                    [entity |-> Al, label |-> "PERSON", quote |-> "q2",
                     path |-> 1, par |-> 1, ws |-> 7, we |-> 9],
                    [entity |-> Al, label |-> "PERSON", quote |-> "q3",
                     path |-> 1, par |-> 2, ws |-> 0, we |-> 2] >>,
        lems |-> << [lemma |-> Lemma_run_VERB, path |-> 1, par |-> 1,
                     ws |-> 11, we |-> 14],
                    [lemma |-> Lemma_run_VERB, path |-> 1, par |-> 2,
                     ws |-> 3, we |-> 6],
                    [lemma |-> Lemma_RnD_NOUN, path |-> 1, par |-> 2,
                     ws |-> 7, we |-> 10] >>],
       [files |-> <<MetFile, MetFile2>>, use_pos |-> FALSE, lemma_lang |-> "en",
        customs |-> {<<>>, [n \in {Obama} |-> "the 44th president"]},
        ents |-> << [entity |-> Obama, label |-> "PERSON", quote |-> "q1",
                     path |-> 1, par |-> 1, ws |-> 0, we |-> 5],
                    [entity |-> MichelleObama, label |-> "PERSON", quote |-> "q2",
                     path |-> 1, par |-> 1, ws |-> 10, we |-> 24],
                    [entity |-> BarackObama, label |-> "PERSON", quote |-> "q3",
                     path |-> 2, par |-> 1, ws |-> 0, we |-> 12],
                    [entity |-> Obama, label |-> "PERSON", quote |-> "q4",
                     path |-> 2, par |-> 1, ws |-> 17, we |-> 22] >>,
        lems |-> << [lemma |-> Lemma_meet, path |-> 1, par |-> 1,
                     ws |-> 6, we |-> 9],
                    [lemma |-> Lemma_meet, path |-> 2, par |-> 1,
                     ws |-> 13, we |-> 16] >>],
       [files |-> <<HiltonFile>>, use_pos |-> FALSE, lemma_lang |-> "en",
        customs |-> {<<>>, [n \in {Paris} |-> "capital of France"]},
        ents |-> << [entity |-> Paris, label |-> "GPE", quote |-> "q1",
                     path |-> 1, par |-> 1, ws |-> 0, we |-> 5],
                    [entity |-> ParisHilton, label |-> "PERSON", quote |-> "q2",
                     path |-> 1, par |-> 1, ws |-> 13, we |-> 25] >>,
        lems |-> << [lemma |-> Lemma_be, path |-> 1, par |-> 1,
                     ws |-> 6, we |-> 8] >>],
       [files |-> <<StyledFile, BareFile>>, use_pos |-> FALSE, lemma_lang |-> "en",
        customs |-> {<<>>, [n \in {Paris} |-> "capital of France"]},
        ents |-> << [entity |-> Paris, label |-> "GPE", quote |-> "q1",
                     path |-> 1, par |-> 1, ws |-> 0, we |-> 5],
                    [entity |-> Tom, label |-> "PERSON", quote |-> "q2",
                     path |-> 2, par |-> 1, ws |-> 0, we |-> 3] >>,
        lems |-> << [lemma |-> Lemma_be, path |-> 1, par |-> 1,
                     ws |-> 6, we |-> 8],
                    [lemma |-> Lemma_run, path |-> 2, par |-> 1,
                     ws |-> 4, we |-> 7] >>] >>

\* ---------------------------------------------------------------- extract_epub

\* A markup tag is a symbol of more than one character.
IsTag(sym) == Len(sym) > 1

\* The text runs extract_epub yields for one file: for every match of
\* <body ... </body>, every match of >[^<]{2,}< in it, as 0-based
\* <<start, end>> offsets of the text between the two tags.
ParagraphSet(text) ==
    {se \in (0..Len(text)) \X (0..Len(text)) :
        /\ se[2] - se[1] >= 2
        /\ se[1] >= 1 /\ IsTag(text[se[1]])
        /\ se[2] + 1 <= Len(text) /\ IsTag(text[se[2] + 1])
        /\ \A i \in (se[1] + 1)..se[2] : ~IsTag(text[i])
        /\ \E b \in 1..se[1] :
              /\ text[b] = "<body>"
              /\ \E e \in (se[2] + 1)..Len(text) :
                    /\ text[e] = "</body>"
                    /\ \A j \in (b + 1)..(e - 1) : text[j] # "</body>"}

RECURSIVE SortByStart(_)
SortByStart(S) ==
    IF S = {} THEN <<>>
    ELSE LET m == CHOOSE x \in S : \A y \in S : x[1] <= y[1]
         IN  <<m>> \o SortByStart(S \ {m})

Paragraphs(text) == SortByStart(ParagraphSet(text))

\* The paragraphs of every file of every book.
BookParagraphs ==
    [b \in 1..Len(Books) |->
        [f \in 1..Len(Books[b].files) |-> Paragraphs(Books[b].files[f])]]

\* ------------------------------------------------------------------- state

VARIABLES
    pc,                  \* where the run is: "ingest", then the steps of modify_epub
    book,                \* index in Books of the book being processed
    next_ent,            \* index of the tagger's next entity mention
    next_lem,            \* index of the tagger's next lemma mention
    custom_x_ray,        \* self.custom_x_ray: name -> description
    entity_id,           \* self.entity_id
    entities,            \* self.entities, in dict order: [name, id, label, quote, count]
    entity_occurrences,  \* self.entity_occurrences, in dict order: [path, occs]
    removed_entity_ids,  \* self.removed_entity_ids
    lemmas,              \* self.lemmas, in dict order: [lemma, id]
    lemma_id,            \* self.lemma_id
    prefs,               \* self.prefs
    lemmas_conn,         \* self.lemmas_conn
    cache,               \* names the knowledge-base cache has an intro for
    files,               \* the extracted XHTML files, by path
    new_xhtml,           \* new_xhtml_str of each rewritten path, before the
                         \* namespace and CSS edits (line 343)
    processed,           \* the occurrences the loop of line 314 went through
                         \* for each rewritten path, in its order
    x_ray_page,          \* the asides of x_ray.xhtml
    word_wise_page,      \* the asides of word_wise.xhtml
    manifest,            \* the items modify_opf added to the manifest
    book_file,           \* the book at book_path: "original" or "annotated"
    x_ray                \* the X_Ray instance of the relational path (x_ray.py)
                         \* and the rows it inserted

vars ==
    <<pc, book, next_ent, next_lem, custom_x_ray, entity_id, entities,
      entity_occurrences, removed_entity_ids, lemmas, lemma_id, prefs,
      lemmas_conn, cache, files, new_xhtml, processed, x_ray_page, word_wise_page,
      manifest, book_file, x_ray>>

\* What modify_epub sets; untouched while mentions are recorded.
runVars ==
    <<prefs, lemmas_conn, cache, files, new_xhtml, processed, x_ray_page, word_wise_page,
      manifest, book_file, removed_entity_ids, x_ray>>

\* X_Ray.__init__ (x_ray.py, lines 23-39), with the tables of the database
\* it inserts into, empty: x_occurrence, x_entity, x_entity_description,
\* x_book_metadata and x_type.
X_Ray(search_people) ==
    [entity_id |-> 1, num_people |-> 0, num_terms |-> 0, erl |-> 0,
     entities |-> <<>>, people_counter |-> <<>>, terms_counter |-> <<>>,
     num_images |-> 0, search_people |-> search_people,
     x_occurrence |-> <<>>, x_entity |-> <<>>, x_entity_description |-> <<>>,
     x_book_metadata |-> <<>>, x_type |-> <<>>, finished |-> FALSE]

NoPrefs ==
    [minimal_x_ray_count |-> 1, search_people |-> FALSE,
     remove_link_styles |-> FALSE, use_pos |-> FALSE]

Occurrence(paragraph_start, paragraph_end, word_start, word_end, lemma, eid) ==
    [paragraph_start |-> paragraph_start, paragraph_end |-> paragraph_end,
     word_start |-> word_start, word_end |-> word_end, lemma |-> lemma,
     entity_id |-> eid]

Init ==
    /\ pc = "ingest"
    /\ book \in 1..Len(Books)
    /\ next_ent = 1
    /\ next_lem = 1
    /\ custom_x_ray \in Books[book].customs
    /\ entity_id = 0
    /\ entities = <<>>
    /\ entity_occurrences = <<>>
    /\ removed_entity_ids = {}
    /\ lemmas = <<>>
    /\ lemma_id = 0
    /\ prefs = NoPrefs
    /\ lemmas_conn = NoConn
    /\ cache = {}
    /\ files = Books[book].files
    /\ new_xhtml = [p \in {} |-> <<>>]
    /\ processed = [p \in {} |-> <<>>]
    /\ x_ray_page = <<>>
    /\ word_wise_page = <<>>
    /\ manifest = {}
    /\ book_file = "original"
    /\ x_ray = X_Ray(FALSE)

\* ----------------------------------------------------------- dict helpers

\* Position of key name in the registry, 0 when absent (dict.get).
KeyIndex(ents, name) ==
    IF \E i \in 1..Len(ents) : ents[i].name = name
    THEN CHOOSE i \in 1..Len(ents) : ents[i].name = name
    ELSE 0

\* del d[key] for the entry at position k.
RemoveAt(seq, k) == SubSeq(seq, 1, k - 1) \o SubSeq(seq, k + 1, Len(seq))

\* self.entity_occurrences[xhtml_path].append(occ) on a defaultdict(list).
AppendOccurrence(eo, xhtml_path, occ) ==
    IF \E i \in 1..Len(eo) : eo[i].path = xhtml_path
    THEN [i \in 1..Len(eo) |->
            IF eo[i].path = xhtml_path
            THEN [eo[i] EXCEPT !.occs = Append(@, occ)]
            ELSE eo[i]]
    ELSE Append(eo, [path |-> xhtml_path, occs |-> <<occ>>])

\* Every occurrence recorded, over all paths.
AllOccurrences == Flatten([i \in 1..Len(entity_occurrences) |-> entity_occurrences[i].occs])

\* ---------------------------------------------------------------- add_entity

\* rapidfuzz.process.extractOne(query, keys, score_cutoff, scorer): the
\* position of the first key with the highest score at or above the
\* cutoff, 0 (None) when no key reaches it.
\* (BestChoiceNoCutoff is a variant that returns the best key whatever its
\* score.)
BestChoiceNoCutoff(score, score_cutoff) ==
    IF DOMAIN score = {} THEN 0
    ELSE CHOOSE i \in DOMAIN score :
            \A j \in DOMAIN score : score[j] < score[i] \/ (score[j] = score[i] /\ i <= j)

BestChoice(score, score_cutoff) ==
    LET ok == {i \in DOMAIN score : score[i] >= score_cutoff * 1000}
    IN  IF ok = {} THEN 0
        ELSE CHOOSE i \in ok :
                \A j \in ok : score[j] < score[i] \/ (score[j] = score[i] /\ i <= j)

extractOne(query, ents, score_cutoff) ==
    Strict(LAMBDA score : BestChoice(score, score_cutoff),
           [i \in 1..Len(ents) |-> token_set_ratio(query, ents[i].name)])

\* Line 186: a name of the custom mapping is never matched fuzzily.
\* (FuzzyEligibleAlways is a variant without the test, which the
\* properties on custom names must tell from it.)
FuzzyEligibleAlways(entity) == TRUE

FuzzyEligible(entity) == entity \notin DOMAIN custom_x_ray

\* A variant of the exact-match branch that counts the mention on every
\* entity.
ExactMatchAll(ents, k) == [i \in 1..Len(ents) |-> [ents[i] EXCEPT !.count = @ + 1]]

\* The exact-match branch (lines 183-185).
ExactMatch(ents, k) == [ents EXCEPT ![k].count = @ + 1]

\* Two variants of the fuzzy-match branch, which the properties on counts
\* and on promotion must tell from it: one does not count the mention, one
\* never re-keys the entity.
FuzzyMatchUncounted(ents, r, entity, ner_label) ==
    IF is_full_name(ents[r].name, ents[r].label, entity, ner_label)
    THEN Append(RemoveAt(ents, r), [ents[r] EXCEPT !.name = entity])
    ELSE ents

FuzzyMatchNoRekey(ents, r, entity, ner_label) == [ents EXCEPT ![r].count = @ + 1]

\* A variant of the fuzzy-match branch that keeps the old key beside the
\* new one.
FuzzyMatchAlias(ents, r, entity, ner_label) ==
    LET counted == [ents EXCEPT ![r].count = @ + 1]
    IN  IF is_full_name(ents[r].name, ents[r].label, entity, ner_label)
        THEN Append(counted, [counted[r] EXCEPT !.name = entity])
        ELSE counted

\* The fuzzy-match branch (lines 194-200): count the mention on the matched
\* entity and re-key it under the new name when that is its full name.
FuzzyMatch(ents, r, entity, ner_label) ==
    LET counted == [ents EXCEPT ![r].count = @ + 1]
    IN  IF is_full_name(ents[r].name, ents[r].label, entity, ner_label)
        THEN Append(RemoveAt(counted, r), [counted[r] EXCEPT !.name = entity])
        ELSE counted

\* A variant of the create branch that stores the id after the counter's.
CreateEntityNextId(ents, eid, entity, ner_label, book_quote) ==
    Append(ents, [name |-> entity, id |-> eid + 1, label |-> ner_label,
                  quote |-> book_quote, count |-> 1])

\* The create branch (lines 202-209).
CreateEntity(ents, eid, entity, ner_label, book_quote) ==
    Append(ents, [name |-> entity, id |-> eid, label |-> ner_label,
                  quote |-> book_quote, count |-> 1])

AddEntity(entity, ner_label, book_quote, paragraph_start, paragraph_end, word_start, word_end, xhtml_path) ==
    \E k \in {KeyIndex(entities, entity)} :
    \E r \in {IF k = 0 /\ FuzzyEligible(entity)
              THEN extractOne(entity, entities, FUZZ_THRESHOLD)
              ELSE 0} :
    \E eid \in {IF k # 0 THEN entities[k].id
                ELSE IF r # 0 THEN entities[r].id
                ELSE entity_id} :
        /\ entities' = IF k # 0 THEN ExactMatch(entities, k)
                       ELSE IF r # 0 THEN FuzzyMatch(entities, r, entity, ner_label)
                       ELSE CreateEntity(entities, entity_id, entity, ner_label,
                                         book_quote)
        /\ entity_id' = IF k = 0 /\ r = 0 THEN entity_id + 1 ELSE entity_id
        /\ entity_occurrences' =
               AppendOccurrence(entity_occurrences, xhtml_path,
                                Occurrence(paragraph_start, paragraph_end,
                                           word_start, word_end, <<>>, eid))
        /\ UNCHANGED <<lemmas, lemma_id>>

\* ----------------------------------------------------------------- add_lemma

\* Position of lemma in self.lemmas, 0 when absent.
LemmaIndex(lems, lemma) ==
    IF \E i \in 1..Len(lems) : lems[i].lemma = lemma
    THEN CHOOSE i \in 1..Len(lems) : lems[i].lemma = lemma
    ELSE 0

\* A variant that inserts without looking the lemma up.
InsertLemmaAlways(lems, lid, lemma) == Append(lems, [lemma |-> lemma, id |-> lid])

\* Lines 239-241: get-or-insert.
InsertLemma(lems, lid, lemma) ==
    IF LemmaIndex(lems, lemma) = 0
    THEN Append(lems, [lemma |-> lemma, id |-> lid])
    ELSE lems

AddLemma(lemma, paragraph_start, paragraph_end, word_start, word_end, xhtml_path) ==
    /\ entity_occurrences' =
           AppendOccurrence(entity_occurrences, xhtml_path,
                            Occurrence(paragraph_start, paragraph_end,
                                       word_start, word_end, lemma, 0))
    /\ lemmas' = InsertLemma(lemmas, lemma_id, lemma)
    /\ lemma_id' = IF LemmaIndex(lemmas, lemma) = 0 THEN lemma_id + 1 ELSE lemma_id
    /\ UNCHANGED <<entities, entity_id>>

\* ------------------------------------------------------------------ the tagger

\* The paragraph a mention of the current book lies in, as <<start, end>>.
ParagraphOf(c) == BookParagraphs[book][c.path][c.par]

\* The caller records the tagger's next entity mention (entities come in
\* reading order; any mention may be one the tagger does not report).
RecordEntity ==
    /\ pc = "ingest"
    /\ Len(AllOccurrences) < MaxMentions
    /\ \E k \in next_ent..Len(Books[book].ents) :
          LET c == Books[book].ents[k]
          IN  /\ AddEntity(c.entity, c.label, c.quote, ParagraphOf(c)[1],
                           ParagraphOf(c)[2], c.ws, c.we, c.path)
              /\ next_ent' = k + 1
    /\ UNCHANGED <<pc, book, next_lem, custom_x_ray>>
    /\ UNCHANGED runVars

\* The caller records the tagger's next lemma mention; lemma mentions are
\* recorded independently of the entity mentions.
RecordLemma ==
    /\ pc = "ingest"
    /\ Len(AllOccurrences) < MaxMentions
    /\ \E k \in next_lem..Len(Books[book].lems) :
          LET c == Books[book].lems[k]
          IN  /\ AddLemma(c.lemma, ParagraphOf(c)[1], ParagraphOf(c)[2], c.ws,
                          c.we, c.path)
              /\ next_lem' = k + 1
    /\ UNCHANGED <<pc, book, next_ent, custom_x_ray>>
    /\ UNCHANGED runVars

\* ----------------------------------------------------------- get_lemma_gloss

\* lemma.rsplit("_", 1): <<lemma, pos>> around the last "_".
rsplit(lemma) ==
    LET k == CHOOSE i \in 1..Len(lemma) :
                 lemma[i] = "_" /\ \A j \in (i + 1)..Len(lemma) : lemma[j] # "_"
    IN  <<SubSeq(lemma, 1, k - 1), SubSeq(lemma, k + 1, Len(lemma))>>

spacy_to_wiktionary_pos(pos) ==
    CASE pos = <<"N", "O", "U", "N">> -> "noun"
      [] pos = <<"A", "D", "J">> -> "adj"
      [] pos = <<"V", "E", "R", "B">> -> "verb"
      [] pos = <<"A", "D", "V">> -> "adv"
      [] OTHER -> "other"

\* The senses joined to the forms table on lemma and pos.
FormRows(conn, form) ==
    {r \in conn.senses :
        \E f \in conn.forms : f.form = form /\ f.lemma = r.lemma /\ f.pos = r.pos}

query_gloss_with_pos(conn, lemma, pos, lang) ==
    LET direct == {r \in conn.senses : r.lemma = lemma /\ r.pos = pos}
    IN  IF direct # {} THEN direct
        ELSE IF " " \in Range(lemma) THEN FormRows(conn, lemma)
        ELSE IF lang = "zh" THEN {r \in FormRows(conn, lemma) : r.pos = pos}
        ELSE {}

query_gloss_without_pos(conn, lemma) ==
    LET direct == {r \in conn.senses : r.lemma = lemma /\ r.enabled = 1}
        byForm == {r \in FormRows(conn, lemma) : r.enabled = 1}
    IN  IF direct # {} THEN {CHOOSE r \in direct : TRUE}
        ELSE IF byForm # {} THEN {CHOOSE r \in byForm : TRUE}
        ELSE {}

\* The rows of the lemma's gloss (empty: no resolvable gloss).
get_lemma_gloss(lemma, lang) ==
    IF prefs.use_pos
    THEN query_gloss_with_pos(lemmas_conn, rsplit(lemma)[1],
                              spacy_to_wiktionary_pos(rsplit(lemma)[2]), lang)
    ELSE query_gloss_without_pos(lemmas_conn, lemma)

\* ------------------------------------------------------- build_word_wise_tag

\* len(short_def) / len(word) > len_ratio, with len_ratio 3 for CJK
\* languages and 2.5 otherwise.
GlossTooLong(short_def, word, lemma_lang) ==
    IF lemma_lang \in CJK_LANGS
    THEN Len(short_def) > 3 * Len(word)
    ELSE 2 * Len(short_def) > 5 * Len(word)

\* A variant of build_word_wise_tag that numbers the lemmas left from 0
\* when it deletes one.
build_word_wise_tag_renumbering(lemma, word, lemma_lang, lems) ==
    LET k == LemmaIndex(lems, lemma)
        data == get_lemma_gloss(lemma, lemma_lang)
        short_def == (CHOOSE r \in data : TRUE).short_def
    IN  IF k = 0 THEN [text |-> word, lemmas |-> lems]
        ELSE IF data = {} THEN [text |-> word, lemmas |-> [n \in 1..(Len(lems) - 1) |->
                             [RemoveAt(lems, k)[n] EXCEPT !.id = n - 1]]]
        ELSE IF GlossTooLong(short_def, word, lemma_lang)
        THEN [text |-> <<WordWiseOpen(lems[k].id)>> \o escape(word) \o <<AnchorClose>>,
              lemmas |-> lems]
        ELSE [text |-> <<RubyOpen(lems[k].id)>> \o escape(word) \o <<RubyMid>>
                          \o escape(short_def) \o <<RubyClose>>,
              lemmas |-> lems]

\* The tag's text, and self.lemmas after the call.
build_word_wise_tag(lemma, word, lemma_lang, lems) ==
    LET k == LemmaIndex(lems, lemma)
        data == get_lemma_gloss(lemma, lemma_lang)
        short_def == (CHOOSE r \in data : TRUE).short_def
    IN  IF k = 0 THEN [text |-> word, lemmas |-> lems]
        ELSE IF data = {} THEN [text |-> word, lemmas |-> RemoveAt(lems, k)]
        ELSE IF GlossTooLong(short_def, word, lemma_lang)
        THEN [text |-> <<WordWiseOpen(lems[k].id)>> \o escape(word) \o <<AnchorClose>>,
              lemmas |-> lems]
        ELSE [text |-> <<RubyOpen(lems[k].id)>> \o escape(word) \o <<RubyMid>>
                          \o escape(short_def) \o <<RubyClose>>,
              lemmas |-> lems]

\* ---------------------------------------------------- insert_anchor_elements

\* The sort key of line 306.
KeyLessEq(a, b) ==
    \/ a.paragraph_start < b.paragraph_start
    \/ a.paragraph_start = b.paragraph_start /\ a.word_start <= b.word_start

\* sorted(): stable.
\* x put into the sorted sequence rest, after the elements whose key is
\* not greater (they are the first n of rest).
InsertSorted(rest, x) ==
    Strict(LAMBDA n : SubSeq(rest, 1, n) \o <<x>> \o SubSeq(rest, n + 1, Len(rest)),
           Cardinality({i \in 1..Len(rest) : KeyLessEq(rest[i], x)}))

RECURSIVE sorted(_)
sorted(occs) ==
    IF occs = <<>> THEN <<>>
    ELSE Strict(LAMBDA rest : InsertSorted(rest, occs[Len(occs)]),
                sorted(SubSeq(occs, 1, Len(occs) - 1)))

\* A variant whose anchors all point at footnote 0.
XRayAnchorZero(eid, word) == <<XRayOpen(0)>> \o escape(word) \o <<AnchorClose>>

\* The markup replacing the word of an entity occurrence (lines 330-333).
XRayAnchor(eid, word) == <<XRayOpen(eid)>> \o escape(word) \o <<AnchorClose>>

\* One iteration of the loop of line 314 on the loop's locals.
RewriteStep(xhtml_str, st, occurrence, lemma_lang) ==
    IF occurrence.entity_id \in removed_entity_ids THEN st
    ELSE LET changed == occurrence.paragraph_end # st.last_p_end
             flushed ==
                 IF changed
                 THEN st.new \o escape(SliceFrom(st.last_p_text, st.last_w_end))
                          \o Slice(xhtml_str, st.last_p_end, occurrence.paragraph_start)
                 ELSE st.new
             last_w_end == IF changed THEN 0 ELSE st.last_w_end
             paragraph_text ==
                 unescape(Slice(xhtml_str, occurrence.paragraph_start,
                                occurrence.paragraph_end))
             word == Slice(paragraph_text, occurrence.word_start, occurrence.word_end)
             tag == IF occurrence.lemma = <<>>
                    THEN [text |-> XRayAnchor(occurrence.entity_id, word),
                          lemmas |-> st.lemmas]
                    ELSE build_word_wise_tag(occurrence.lemma, word, lemma_lang,
                                             st.lemmas)
         IN  [new |-> flushed
                        \o escape(Slice(paragraph_text, last_w_end,
                                        occurrence.word_start))
                        \o tag.text,
              last_p_text |-> IF changed THEN paragraph_text ELSE st.last_p_text,
              last_w_end |-> occurrence.word_end,
              last_p_end |-> IF changed THEN occurrence.paragraph_end
                             ELSE st.last_p_end,
              lemmas |-> tag.lemmas]

RECURSIVE RewriteLoop(_, _, _, _, _)
RewriteLoop(xhtml_str, st, occurrences, i, lemma_lang) ==
    IF i > Len(occurrences) THEN st
    ELSE Strict(LAMBDA next : RewriteLoop(xhtml_str, next, occurrences, i + 1,
                                          lemma_lang),
                RewriteStep(xhtml_str, st, occurrences[i], lemma_lang))

\* A variant that escapes what it appends.
RewriteTailEscaped(xhtml_str, st) == escape(SliceFrom(xhtml_str, st.last_p_end))

\* What is appended after the loop (line 343).
RewriteTail(xhtml_str, st) == SliceFrom(xhtml_str, st.last_p_end)

\* Lines 303-343 for one path: new_xhtml_str and self.lemmas afterwards,
\* and the list the loop went through.
RewriteRegion(xhtml_str, occurrences, lems, lemma_lang) ==
    Strict(LAMBDA occs :
               Strict(LAMBDA st : [text |-> st.new \o RewriteTail(xhtml_str, st),
                                   lemmas |-> st.lemmas, occurrences |-> occs],
                      RewriteLoop(xhtml_str,
                                  [new |-> <<>>, last_p_text |-> <<>>,
                                   last_w_end |-> 0, last_p_end |-> 0,
                                   lemmas |-> lems],
                                  occs, 1, lemma_lang)),
           IF entities # <<>> /\ lems # <<>> THEN sorted(occurrences)
           ELSE occurrences)

\* Lines 347-351: the epub namespace is added to the xhtml declaration unless
\* the ops namespace already occurs in the text.
AddNamespace(text) ==
    IF HtmlEpubTag \in Range(text) THEN text
    ELSE [i \in 1..Len(text) |-> IF text[i] = HtmlTag THEN HtmlEpubTag ELSE text[i]]

\* Lines 352-355: str.replace("</head>", "<style>...</style></head>").
AddCss(text, css) ==
    Flatten([i \in 1..Len(text) |->
                IF text[i] = "</head>" THEN <<css, "</head>">> ELSE <<text[i]>>])

\* The loop of line 302 from entry i on: the files written, new_xhtml_str
\* of each path, and self.lemmas at the end.  css is "" for no rules.
\* Lines 345-356: the text written to the file.
Written(text, css) ==
    Strict(LAMBDA ns : IF css # "" THEN AddCss(ns, css) ELSE ns, AddNamespace(text))

\* One iteration of the loop of line 302 on the run so far.
RewritePath(run, e, css) ==
    Strict(LAMBDA r :
               [lemmas |-> r.lemmas,
                files |-> [run.files EXCEPT ![e.path] = Written(r.text, css)],
                new_xhtml |-> [p \in (DOMAIN run.new_xhtml) \cup {e.path} |->
                                  IF p = e.path THEN r.text ELSE run.new_xhtml[p]],
                processed |-> [p \in (DOMAIN run.processed) \cup {e.path} |->
                                  IF p = e.path THEN r.occurrences
                                  ELSE run.processed[p]]],
           RewriteRegion(run.files[e.path], e.occs, run.lemmas,
                         Books[book].lemma_lang))

RECURSIVE RewriteAll(_, _, _)
RewriteAll(i, run, css) ==
    IF i > Len(entity_occurrences) THEN run
    ELSE Strict(LAMBDA next : RewriteAll(i + 1, next, css),
                RewritePath(run, entity_occurrences[i], css))

\* css_rules of lines 287-300, as the <style> symbol ("" when empty).
CssRules ==
    IF lemmas # <<>> \/ prefs.remove_link_styles
    THEN StyleTag(lemmas # <<>>, prefs.remove_link_styles)
    ELSE ""

\* -------------------------------------------------------------- modify_epub

\* Lines 262-265: the run starts with the preferences and the dictionary
\* connection the caller hands over.  The inputs no step reads are fixed;
\* search_people and remove_link_styles, which no step reads together, are
\* drawn as one flag.
ModifyEpubBegin ==
    /\ pc = "ingest"
    /\ \E mc \in 1..MaxMinCount, flag \in BOOLEAN :
          /\ entities = <<>> => mc = 1
          /\ prefs' = [minimal_x_ray_count |-> mc, search_people |-> flag,
                       remove_link_styles |-> flag,
                       use_pos |-> Books[book].use_pos]
    /\ IF lemmas = <<>> THEN lemmas_conn' = NoConn ELSE lemmas_conn' \in DictChoices
    /\ pc' = IF entities # <<>> THEN "query" ELSE "rewrite"
    /\ UNCHANGED <<x_ray, book, next_ent, next_lem, custom_x_ray, entity_id, entities,
                   entity_occurrences, removed_entity_ids, lemmas, lemma_id,
                   cache, files, new_xhtml, processed, x_ray_page, word_wise_page,
                   manifest, book_file>>

\* A variant of the queries that returns before the caches are filled.
QueryMediawikiUnfinished ==
    /\ pc = "query"
    /\ cache' = {}
    /\ pc' = IF prefs.minimal_x_ray_count > 1 THEN "filter" ELSE "x_ray"
    /\ UNCHANGED <<x_ray, book, next_ent, next_lem, custom_x_ray, entity_id, entities,
                   entity_occurrences, removed_entity_ids, lemmas, lemma_id,
                   prefs, lemmas_conn, files, new_xhtml, processed, x_ray_page,
                   word_wise_page, manifest, book_file>>

\* Lines 266-268: query_mediawiki and query_wikidata fill the caches with
\* what the knowledge base has on the registry's names.
QueryMediawiki ==
    /\ pc = "query"
    /\ cache' = {entities[i].name : i \in 1..Len(entities)} \cap KnowledgeBase
    /\ pc' = IF prefs.minimal_x_ray_count > 1 THEN "filter" ELSE "x_ray"
    /\ UNCHANGED <<x_ray, book, next_ent, next_lem, custom_x_ray, entity_id, entities,
                   entity_occurrences, removed_entity_ids, lemmas, lemma_id,
                   prefs, lemmas_conn, files, new_xhtml, processed, x_ray_page,
                   word_wise_page, manifest, book_file>>

\* A variant of the test that looks at the count alone.
ToRemoveByCount(data, minimal_count) == data.count < minimal_count

\* The test of lines 245-250 (self.mediawiki is set whenever entities were
\* recorded: the caller creates the client together with the X-Ray run).
ToRemove(data, minimal_count) ==
    /\ data.count < minimal_count
    /\ data.name \notin cache
    /\ data.name \notin DOMAIN custom_x_ray

\* A variant of remove_entities that numbers the entities left from 0.
RemainingEntitiesRenumbered(ents, minimal_count) ==
    LET kept == SelectSeq(ents, LAMBDA data : ~ToRemove(data, minimal_count))
    IN  [i \in 1..Len(kept) |-> [kept[i] EXCEPT !.id = i - 1]]

\* remove_entities(minimal_count): the registry left.
RemainingEntities(ents, minimal_count) ==
    SelectSeq(ents, LAMBDA data : ~ToRemove(data, minimal_count))

\* remove_entities(minimal_count): the ids recorded as removed.
RemovedIds(ents, minimal_count) ==
    {ents[i].id : i \in {j \in 1..Len(ents) : ToRemove(ents[j], minimal_count)}}

RemoveEntities ==
    /\ pc = "filter"
    /\ entities' = RemainingEntities(entities, prefs.minimal_x_ray_count)
    /\ removed_entity_ids' =
           removed_entity_ids \cup RemovedIds(entities, prefs.minimal_x_ray_count)
    /\ pc' = "x_ray"
    /\ UNCHANGED <<x_ray, book, next_ent, next_lem, custom_x_ray, entity_id,
                   entity_occurrences, lemmas, lemma_id, prefs, lemmas_conn,
                   cache, files, new_xhtml, processed, x_ray_page, word_wise_page,
                   manifest, book_file>>

\* A variant of the aside that prefers the cached intro to the custom
\* description.
XRayAsideCacheFirst(data) ==
    IF (prefs.search_people \/ data.label \notin PERSON_LABELS)
       /\ data.name \in cache
    THEN [id |-> data.id, kind |-> "cache", text |-> "intro"]
    ELSE IF data.name \in DOMAIN custom_x_ray
    THEN [id |-> data.id, kind |-> "custom", text |-> custom_x_ray[data.name]]
    ELSE [id |-> data.id, kind |-> "quote", text |-> data.quote]

\* The aside of one entity (lines 404-464): its id, the branch that wrote it
\* and the string its paragraphs are made of (split_p_tags of the custom
\* description or of the cached intro, escape of the quote).
XRayAside(data) ==
    IF data.name \in DOMAIN custom_x_ray
    THEN [id |-> data.id, kind |-> "custom", text |-> custom_x_ray[data.name]]
    ELSE IF (prefs.search_people \/ data.label \notin PERSON_LABELS)
            /\ data.name \in cache
    THEN [id |-> data.id, kind |-> "cache", text |-> "intro"]
    ELSE [id |-> data.id, kind |-> "quote", text |-> data.quote]

CreateXRayFootnotes ==
    /\ pc = "x_ray"
    /\ x_ray_page' = [i \in 1..Len(entities) |-> XRayAside(entities[i])]
    /\ pc' = "rewrite"
    /\ UNCHANGED <<x_ray, book, next_ent, next_lem, custom_x_ray, entity_id, entities,
                   entity_occurrences, removed_entity_ids, lemmas, lemma_id,
                   prefs, lemmas_conn, cache, files, new_xhtml, processed, word_wise_page,
                   manifest, book_file>>

InsertAnchorElements ==
    /\ pc = "rewrite"
    /\ \E r \in {RewriteAll(1, [lemmas |-> lemmas, files |-> files,
                                 new_xhtml |-> new_xhtml,
                                 processed |-> processed], CssRules)} :
          /\ lemmas' = r.lemmas
          /\ files' = r.files
          /\ new_xhtml' = r.new_xhtml
          /\ processed' = r.processed
          /\ pc' = IF r.lemmas # <<>> THEN "word_wise" ELSE "opf"
    /\ UNCHANGED <<x_ray, book, next_ent, next_lem, custom_x_ray, entity_id, entities,
                   entity_occurrences, removed_entity_ids, lemma_id, prefs,
                   lemmas_conn, cache, x_ray_page, word_wise_page, manifest,
                   book_file>>

\* A variant of create_ww_aside_tag that numbers the asides from 1.
WordWiseAsideShifted(lemma, lid) ==
    [id |-> lid + 1, lemma |-> lemma,
     rows |-> get_lemma_gloss(lemma, Books[book].lemma_lang)]

\* create_ww_aside_tag: the aside of one lemma, with the rows it lists.
WordWiseAside(lemma, lid) ==
    [id |-> lid, lemma |-> lemma,
     rows |-> get_lemma_gloss(lemma, Books[book].lemma_lang)]

CreateWordWiseFootnotes ==
    /\ pc = "word_wise"
    /\ word_wise_page' =
           [i \in 1..Len(lemmas) |-> WordWiseAside(lemmas[i].lemma, lemmas[i].id)]
    /\ pc' = "opf"
    /\ UNCHANGED <<x_ray, book, next_ent, next_lem, custom_x_ray, entity_id, entities,
                   entity_occurrences, removed_entity_ids, lemmas, lemma_id,
                   prefs, lemmas_conn, cache, files, new_xhtml, processed, x_ray_page,
                   manifest, book_file>>

\* A variant of modify_opf that installs the book before the archive is
\* built.
ModifyOpfInPlace ==
    /\ pc = "opf"
    /\ manifest' = (IF entities # <<>> THEN {"x_ray.xhtml"} ELSE {})
                       \cup (IF lemmas # <<>> THEN {"word_wise.xhtml"} ELSE {})
    /\ book_file' = "annotated"
    /\ pc' = "zip"
    /\ UNCHANGED <<x_ray, book, next_ent, next_lem, custom_x_ray, entity_id, entities,
                   entity_occurrences, removed_entity_ids, lemmas, lemma_id,
                   prefs, lemmas_conn, cache, files, new_xhtml, processed,
                   x_ray_page, word_wise_page>>

\* modify_opf: the footnote pages are added to the manifest and the spine.
ModifyOpf ==
    /\ pc = "opf"
    /\ manifest' = (IF entities # <<>> THEN {"x_ray.xhtml"} ELSE {})
                       \cup (IF lemmas # <<>> THEN {"word_wise.xhtml"} ELSE {})
    /\ pc' = "zip"
    /\ UNCHANGED <<x_ray, book, next_ent, next_lem, custom_x_ray, entity_id, entities,
                   entity_occurrences, removed_entity_ids, lemmas, lemma_id,
                   prefs, lemmas_conn, cache, files, new_xhtml, processed, x_ray_page,
                   word_wise_page, book_file>>

\* zip_extract_folder: the archive replaces the book.
ZipExtractFolder ==
    /\ pc = "zip"
    /\ book_file' = "annotated"
    /\ pc' = "done"
    /\ UNCHANGED <<x_ray, book, next_ent, next_lem, custom_x_ray, entity_id, entities,
                   entity_occurrences, removed_entity_ids, lemmas, lemma_id,
                   prefs, lemmas_conn, cache, files, new_xhtml, processed, x_ray_page,
                   word_wise_page, manifest>>

Next ==
    \/ RecordEntity
    \/ RecordLemma
    \/ ModifyEpubBegin
    \/ QueryMediawiki
    \/ RemoveEntities
    \/ CreateXRayFootnotes
    \/ InsertAnchorElements
    \/ CreateWordWiseFootnotes
    \/ ModifyOpf
    \/ ZipExtractFolder

Spec == Init /\ [][Next]_vars

\* A step of modify_epub raises (a query, a file operation or the archive
\* builder fails): the exception leaves modify_epub, nothing after the
\* failing call runs, and in zip_extract_folder the failing call is
\* make_archive, before the replace of line 559.
Fail ==
    /\ pc \in {"query", "filter", "x_ray", "rewrite", "word_wise", "opf", "zip"}
    /\ pc' = "failed"
    /\ UNCHANGED <<x_ray, book, next_ent, next_lem, custom_x_ray, entity_id, entities,
                   entity_occurrences, removed_entity_ids, lemmas, lemma_id,
                   prefs, lemmas_conn, cache, files, new_xhtml, processed,
                   x_ray_page, word_wise_page, manifest, book_file>>

\* zip_extract_folder raises after the replace of line 559 (rmtree of line
\* 560 fails) or a close of lines 277-284 raises: the archive is already in
\* the place of the book.
FailAfterReplace ==
    /\ pc = "zip"
    /\ book_file' = "annotated"
    /\ pc' = "failed_cleanup"
    /\ UNCHANGED <<x_ray, book, next_ent, next_lem, custom_x_ray, entity_id, entities,
                   entity_occurrences, removed_entity_ids, lemmas, lemma_id,
                   prefs, lemmas_conn, cache, files, new_xhtml, processed,
                   x_ray_page, word_wise_page, manifest>>

NextOrFail == Next \/ Fail \/ FailAfterReplace

\* modify_epub called with the database that lacks R&D.
ModifyEpubBeginWithoutRnD ==
    /\ pc = "ingest"
    /\ \E mc \in 1..MaxMinCount, flag \in BOOLEAN :
          /\ entities = <<>> => mc = 1
          /\ prefs' = [minimal_x_ray_count |-> mc, search_people |-> flag,
                       remove_link_styles |-> flag,
                       use_pos |-> Books[book].use_pos]
    /\ lemmas_conn' = IF lemmas = <<>> THEN NoConn ELSE DictWithoutRnD
    /\ pc' = IF entities # <<>> THEN "query" ELSE "rewrite"
    /\ UNCHANGED <<x_ray, book, next_ent, next_lem, custom_x_ray, entity_id, entities,
                   entity_occurrences, removed_entity_ids, lemmas, lemma_id,
                   cache, files, new_xhtml, processed, x_ray_page, word_wise_page,
                   manifest, book_file>>

NextWithoutRnD ==
    \/ RecordEntity
    \/ RecordLemma
    \/ ModifyEpubBeginWithoutRnD
    \/ QueryMediawiki
    \/ RemoveEntities
    \/ CreateXRayFootnotes
    \/ InsertAnchorElements
    \/ CreateWordWiseFootnotes
    \/ ModifyOpf
    \/ ZipExtractFolder

\* The runs over the database that lacks R&D.
SpecWithoutRnD == Init /\ [][NextWithoutRnD]_vars

\* The runs in which any step of modify_epub may fail.
SpecFail == Init /\ [][NextOrFail]_vars

\* ------------------------------------------------ rapidfuzz: WRatio

\* The largest element of a non-empty set of numbers.
SetMax(S) == CHOOSE x \in S : \A y \in S : y <= x

\* rapidfuzz.fuzz.ratio, in thousandths of a point.
ratio(s1, s2) == NormSimilarity(IndelDistance(s1, s2), Len(s1) + Len(s2))

\* The alignments partial_ratio tries: the windows of the longer string
\* that are as long as the shorter one, and the shorter prefixes and
\* suffixes of the longer string.
Alignments(n, long) ==
    {SubSeq(long, a, b) : <<a, b>> \in
        {w \in (1..Len(long)) \X (1..Len(long)) :
            /\ w[1] <= w[2]
            /\ \/ w[2] - w[1] + 1 = n
               \/ w[2] - w[1] + 1 < n /\ (w[1] = 1 \/ w[2] = Len(long))}}

\* rapidfuzz.fuzz.partial_ratio: the ratio of the shorter string with its
\* best alignment in the longer one.
partial_ratio(s1, s2) ==
    LET short == IF Len(s1) <= Len(s2) THEN s1 ELSE s2
        long == IF Len(s1) <= Len(s2) THEN s2 ELSE s1
    IN  IF Len(long) = 0 THEN 100000
        ELSE IF Len(short) = 0 THEN 0
        ELSE SetMax({ratio(short, w) : w \in Alignments(Len(short), long)})

\* sorted(tokens) on a list of tokens.
RECURSIVE SortedTokenList(_)
SortedTokenList(ts) ==
    IF ts = <<>> THEN <<>>
    ELSE LET i == CHOOSE k \in 1..Len(ts) : \A j \in 1..Len(ts) : ~StrLess(ts[j], ts[k])
         IN  <<ts[i]>> \o SortedTokenList(RemoveAt(ts, i))

\* rapidfuzz.fuzz.token_sort_ratio on two token lists.
token_sort_ratio(ta, tb) ==
    ratio(JoinTokens(SortedTokenList(ta)), JoinTokens(SortedTokenList(tb)))

\* rapidfuzz.fuzz.token_ratio: the better of token_sort_ratio and
\* token_set_ratio.
token_ratio(ta, tb) == Max(token_sort_ratio(ta, tb), TokenSetRatio(ta, tb))

\* rapidfuzz.fuzz.partial_token_ratio: 100 when the strings share a word,
\* else the better partial_ratio of the sorted tokens and of the sorted
\* distinct tokens.
partial_token_ratio(ta, tb) ==
    IF ta = <<>> \/ tb = <<>> THEN 0
    ELSE IF Range(ta) \cap Range(tb) # {} THEN 100000
    ELSE Max(partial_ratio(JoinTokens(SortedTokenList(ta)),
                           JoinTokens(SortedTokenList(tb))),
             partial_ratio(JoinTokens(SortedTokens(Range(ta))),
                           JoinTokens(SortedTokens(Range(tb)))))

\* rapidfuzz.fuzz.WRatio on two processed strings, in thousandths of a
\* point: 0 when a string is empty; for lengths within a factor of 1.5 the
\* better of ratio and 0.95 * token_ratio; otherwise the best of ratio,
\* scale * partial_ratio and 0.95 * scale * partial_token_ratio, with scale
\* 0.9 up to a factor of 8 and 0.6 beyond.
WRatio(s1, s2) ==
    LET len1 == Len(s1)
        len2 == Len(s2)
        close == 2 * Max(len1, len2) < 3 * Min(len1, len2)
        scale == IF Max(len1, len2) <= 8 * Min(len1, len2) THEN 90 ELSE 60
        t1 == split(s1)
        t2 == split(s2)
    IN  IF len1 = 0 \/ len2 = 0 THEN 0
        ELSE IF close
        THEN Max(ratio(s1, s2), (token_ratio(t1, t2) * 95) \div 100)
        ELSE Max(Max(ratio(s1, s2), (partial_ratio(s1, s2) * scale) \div 100),
                 (partial_token_ratio(t1, t2) * 95 * scale) \div 10000)

\* ------------------------------------------------------------ X_Ray (x_ray.py)

\* collections.Counter: c[k], 0 for a key it does not hold, and c[k] += 1.
CounterGet(c, k) == IF k \in DOMAIN c THEN c[k] ELSE 0

CounterInc(c, k) ==
    [x \in (DOMAIN c) \cup {k} |-> CounterGet(c, x) + (IF x = k THEN 1 ELSE 0)]

\* Counter.most_common(10): the keys by falling count, ties in the order
\* the keys were first counted; the model counts ids in rising order.
RECURSIVE most_common(_, _)
most_common(c, n) ==
    IF n = 0 \/ DOMAIN c = {} THEN <<>>
    ELSE LET k == CHOOSE x \in DOMAIN c :
                      \A y \in DOMAIN c : c[y] < c[x] \/ (c[y] = c[x] /\ x <= y)
         IN  <<k>> \o most_common([x \in (DOMAIN c) \ {k} |-> c[x]], n - 1)

\* extractOne(entity, self.entities.keys(), score_cutoff=FUZZ_THRESHOLD) of
\* line 76: the default scorer WRatio on the strings after the default
\* processor; the position of the best key, 0 for None.
X_Ray_extractOne(query, ents, score_cutoff) ==
    Strict(LAMBDA score : BestChoice(score, score_cutoff),
           [i \in 1..Len(ents) |->
               WRatio(default_process(query), default_process(ents[i].name))])

\* X_Ray.insert_occurrence (lines 63-69).
insert_occurrence(xr, entity_id_, ner_label, start, entity_len) ==
    [xr EXCEPT
        !.people_counter = IF ner_label \in PERSON_LABELS
                           THEN CounterInc(@, entity_id_) ELSE @,
        !.terms_counter = IF ner_label \in PERSON_LABELS
                          THEN @ ELSE CounterInc(@, entity_id_),
        !.x_occurrence = Append(@, [entity_id |-> entity_id_, start |-> start,
                                    entity_len |-> entity_len]),
        !.erl = start + entity_len - 1]

\* dict[key] = value: the value of an existing key is replaced in place, a
\* new key is appended.
DictSet(ents, data) ==
    IF KeyIndex(ents, data.name) # 0
    THEN [ents EXCEPT ![KeyIndex(ents, data.name)] = data]
    ELSE Append(ents, data)

\* X_Ray.add_entity (lines 71-91).
X_Ray_add_entity(xr, entity, ner_label, start, quote, entity_len) ==
    LET r == X_Ray_extractOne(entity, xr.entities, FUZZ_THRESHOLD)
    IN  IF r # 0
        THEN insert_occurrence(xr, xr.entities[r].id, xr.entities[r].label,
                               start, entity_len)
        ELSE insert_occurrence(
                 [xr EXCEPT
                     !.entities = DictSet(@, [name |-> entity, id |-> xr.entity_id,
                                              label |-> ner_label, quote |-> quote]),
                     !.num_people = IF ner_label \in PERSON_LABELS THEN @ + 1 ELSE @,
                     !.num_terms = IF ner_label \in PERSON_LABELS THEN @ ELSE @ + 1,
                     !.entity_id = @ + 1],
                 xr.entity_id, ner_label, start, entity_len)

\* X_Ray.insert_descriptions (lines 42-61): a row per entity, the quote
\* (source None, written 0) or the cached intro (source 1).
insert_descriptions(xr) ==
    [i \in 1..Len(xr.entities) |->
        LET data == xr.entities[i]
        IN  IF (~xr.search_people /\ data.label \in PERSON_LABELS)
               \/ data.name \notin KnowledgeBase
            THEN [text |-> data.quote, entity |-> data.name, source |-> 0,
                  id |-> data.id]
            ELSE [text |-> "intro", entity |-> data.name, source |-> 1,
                  id |-> data.id]]

\* X_Ray.finish (lines 93-143), for a book without images.
finish(xr) ==
    [xr EXCEPT
        !.x_entity =
            [i \in 1..Len(xr.entities) |->
                LET data == xr.entities[i]
                IN  [id |-> data.id, entity |-> data.name,
                     type |-> IF data.label \in PERSON_LABELS THEN 1 ELSE 2,
                     count |-> IF data.label \in PERSON_LABELS
                               THEN CounterGet(xr.people_counter, data.id)
                               ELSE CounterGet(xr.terms_counter, data.id)]],
        !.x_entity_description = insert_descriptions(xr),
        !.x_book_metadata = <<[erl |-> xr.erl, has_images |-> 0,
                               num_people |-> xr.num_people,
                               num_terms |-> xr.num_terms, num_images |-> 0]>>,
        !.x_type = <<[id |-> 1, top_mentioned |-> most_common(xr.people_counter, 10)],
                     [id |-> 2, top_mentioned |-> most_common(xr.terms_counter, 10)]>>,
        !.finished = TRUE]

\* The mentions the tagger may report to the relational path: surface form,
\* label, start offset and quote.  The last one is a mention whose surface
\* form is the empty string.
XRayMentions ==
    << [entity |-> BarackObama, label |-> "PERSON", start |-> 0, quote |-> "q1"],
       [entity |-> Obama, label |-> "PERSON", start |-> 28, quote |-> "q2"],
       [entity |-> Paris, label |-> "GPE", start |-> 21, quote |-> "q3"],
       [entity |-> ParisHilton, label |-> "PERSON", start |-> 40, quote |-> "q4"],
       [entity |-> <<>>, label |-> "PERSON", start |-> 60, quote |-> "q5"] >>

\* The caller builds the X_Ray instance.
InitXRay ==
    /\ Init
    /\ book = 1
    /\ custom_x_ray = <<>>

\* The caller reports one mention to X_Ray.add_entity.
XRayAddEntity ==
    /\ ~x_ray.finished
    /\ Len(x_ray.x_occurrence) < MaxXRayMentions
    /\ \E k \in 1..Len(XRayMentions) :
          LET c == XRayMentions[k]
          IN  x_ray' = X_Ray_add_entity(x_ray, c.entity, c.label, c.start, c.quote,
                                        Len(c.entity))
    /\ UNCHANGED <<pc, book, next_ent, next_lem, custom_x_ray, entity_id, entities,
                   entity_occurrences, lemmas, lemma_id>>
    /\ UNCHANGED <<prefs, lemmas_conn, cache, files, new_xhtml, processed,
                   x_ray_page, word_wise_page, manifest, book_file,
                   removed_entity_ids>>

\* The caller ends the run with X_Ray.finish.
XRayFinish ==
    /\ ~x_ray.finished
    /\ x_ray' = finish(x_ray)
    /\ UNCHANGED <<pc, book, next_ent, next_lem, custom_x_ray, entity_id, entities,
                   entity_occurrences, lemmas, lemma_id>>
    /\ UNCHANGED <<prefs, lemmas_conn, cache, files, new_xhtml, processed,
                   x_ray_page, word_wise_page, manifest, book_file,
                   removed_entity_ids>>

NextXRay == XRayAddEntity \/ XRayFinish

\* The runs of the relational path.
SpecXRay == InitXRay /\ [][NextXRay]_vars

\* ------------------------------------------------- what the properties read

\* The entity occurrences of an occurrence map, over all paths.
EntityOccs(eo) ==
    SelectSeq(Flatten([i \in 1..Len(eo) |-> eo[i].occs]), LAMBDA o : o.lemma = <<>>)

\* The occurrences recorded for one path (none: the empty list).
OccsAt(eo, path) ==
    Flatten([i \in 1..Len(eo) |-> IF eo[i].path = path THEN eo[i].occs ELSE <<>>])

\* The occurrence appended last for a path.
LastOccurrence(eo, path) == OccsAt(eo, path)[Len(OccsAt(eo, path))]

\* The occurrences recorded for the tagger's k-th entity mention.
EntityMentionOccs(k) ==
    LET c == Books[book].ents[k]
    IN  SelectSeq(OccsAt(entity_occurrences, c.path),
                  LAMBDA o : /\ o.lemma = <<>>
                             /\ o.paragraph_start = ParagraphOf(c)[1]
                             /\ o.word_start = c.ws)

\* The tagger's k-th lemma mention was recorded.
LemmaRecorded(k) ==
    LET c == Books[book].lems[k]
    IN  \E j \in 1..Len(OccsAt(entity_occurrences, c.path)) :
            LET o == OccsAt(entity_occurrences, c.path)[j]
            IN  /\ o.lemma = c.lemma
                /\ o.paragraph_start = ParagraphOf(c)[1]
                /\ o.word_start = c.ws

\* The distinct lemmas recorded, in the order of their first mention.
FirstMentions ==
    LET first == SelectSeq([k \in 1..Len(Books[book].lems) |-> k],
                           LAMBDA k :
                               /\ LemmaRecorded(k)
                               /\ \A m \in 1..(k - 1) :
                                     LemmaRecorded(m) =>
                                         Books[book].lems[m].lemma
                                             # Books[book].lems[k].lemma)
    IN  [n \in 1..Len(first) |-> Books[book].lems[first[n]].lemma]

\* name is a fuller form of key: longer, with key as a part.
FullerName(key, name) == Len(key) < Len(name) /\ Contains(name, key)

\* A symbol the rewriter inserted: a tag that is not a tag of the documents.
InsertedMarkup(sym) == IsTag(sym) /\ sym \notin SourceTags

\* Position i of text lies in the gloss of a ruby wrapper.
InGloss(text, i) ==
    \E j \in 1..(i - 1) : text[j] = RubyMid /\ \A k \in j..i : text[k] # RubyClose

\* text with every inserted wrapper replaced by the word it encloses.
Unwrap(text) ==
    Flatten([i \in 1..Len(text) |->
                IF InsertedMarkup(text[i]) \/ InGloss(text, i) THEN <<>>
                ELSE <<text[i]>>])

\* occs is in non-decreasing (paragraph_start, word_start) order and its
\* word spans do not overlap.
InOrder(occs) ==
    \A i \in 1..(Len(occs) - 1) :
        /\ KeyLessEq(occs[i], occs[i + 1])
        /\ occs[i].paragraph_start = occs[i + 1].paragraph_start
               => occs[i].word_end <= occs[i + 1].word_start

\* The x-ray anchors of text, in text order: footnote id and enclosed word.
XRayAnchors(text) ==
    LET at == SelectSeq([i \in 1..Len(text) |-> i],
                        LAMBDA i : \E id \in 0..entity_id : text[i] = XRayOpen(id))
        close(i) == CHOOSE j \in (i + 1)..Len(text) :
                        /\ text[j] = AnchorClose
                        /\ \A k \in (i + 1)..(j - 1) : text[k] # AnchorClose
    IN  [n \in 1..Len(at) |->
            [id |-> CHOOSE id \in 0..entity_id : text[at[n]] = XRayOpen(id),
             word |-> SubSeq(text, at[n] + 1, close(at[n]) - 1)]]

\* ------------------------------------------------------------------ C1

\* C1: rewriting is byte-exact outside annotated spans.  For every path
\* whose occurrence list is in order with non-overlapping spans, the text
\* insert_anchor_elements produced (before the namespace and CSS edits),
\* with every wrapper replaced by the word it encloses, is the original
\* text of the file; the two are compared after resolving character
\* references, so that escaping alone is no difference.  This includes the
\* text of the last annotated paragraph after its last annotated word.
C1_ByteExact ==
    \A i \in 1..Len(entity_occurrences) :
        LET e == entity_occurrences[i]
        IN  (e.path \in DOMAIN new_xhtml /\ InOrder(e.occs))
                => unescape(Unwrap(new_xhtml[e.path]))
                       = unescape(Books[book].files[e.path])

\* ------------------------------------------------------------------ C2

RECURSIVE SumCounts(_)
SumCounts(ents) ==
    IF ents = <<>> THEN 0 ELSE Head(ents).count + SumCounts(Tail(ents))

\* Every count is the number of entity occurrences with the entity's id,
\* and the counts add up to the number of entity occurrences.
CountsMatch(ents, eo) ==
    /\ \A i \in 1..Len(ents) :
          ents[i].count
              = Len(SelectSeq(EntityOccs(eo), LAMBDA o : o.entity_id = ents[i].id))
    /\ SumCounts(ents) = Len(EntityOccs(eo))

\* C2: every add_entity call records one occurrence; after it the count of
\* every entity of the registry is the number of calls that resolved to it
\* (created it, matched its key exactly or matched it fuzzily), the counts
\* add up to the number of entity occurrences, and no count has decreased.
C2_Counts ==
    [][next_ent' # next_ent =>
          /\ Len(EntityOccs(entity_occurrences'))
                 = Len(EntityOccs(entity_occurrences)) + 1
          /\ CountsMatch(entities', entity_occurrences')
          /\ \A i \in 1..Len(entities) :
                \E j \in 1..Len(entities') :
                    /\ entities'[j].id = entities[i].id
                    /\ entities'[j].count >= entities[i].count]_vars

\* C2: two entities, one of which three add_entity calls resolved to (it
\* was created by one and matched by two).
C2_Witness ==
    /\ pc = "ingest"
    /\ Len(entities) = 2
    /\ \E i \in 1..Len(entities) : entities[i].count = 3

\* ------------------------------------------------------------------ C3

ObamaScenario ==
    /\ Books[book].files = <<ObamaFile>>
    /\ DOMAIN custom_x_ray = {}
    /\ Len(EntityOccs(entity_occurrences)) = 3
    /\ removed_entity_ids = {}

\* C4: in that scenario the registry holds exactly two entities, "Barack
\* Obama" with count 2 and "Paris" with count 1, and the rewritten text has
\* three x-ray anchors, around "Barack Obama", "Paris" and "Obama": the two
\* Obama anchors carry the same footnote id, the Paris anchor another.
C4_ObamaParis ==
    ObamaScenario =>
        /\ Len(entities) = 2
        /\ \E i, j \in 1..Len(entities) :
              /\ entities[i].name = BarackObama /\ entities[i].count = 2
              /\ entities[j].name = Paris /\ entities[j].count = 1
        /\ 1 \in DOMAIN new_xhtml =>
              LET a == XRayAnchors(new_xhtml[1])
              IN  /\ Len(a) = 3
                  /\ a[1].word = BarackObama
                  /\ a[2].word = Paris
                  /\ a[3].word = Obama
                  /\ a[1].id = a[3].id
                  /\ a[2].id # a[1].id

\* C4: the scenario, rewritten, with its three anchors in the text.
C4_Witness ==
    /\ ObamaScenario
    /\ pc = "done"
    /\ Len(XRayAnchors(new_xhtml[1])) = 3

\* ------------------------------------------------------------------ C5

\* The word of occurrence o stands in new, unwrapped, where it stands in
\* orig (both with their character references resolved).
WordInPlace(orig, new, o) ==
    LET q == Len(unescape(Slice(orig, 0, o.paragraph_start)))
        was == Slice(unescape(orig), q + o.word_start, q + o.word_end)
    IN  /\ Len(was) = o.word_end - o.word_start
        /\ Slice(unescape(Unwrap(new)), q + o.word_start, q + o.word_end) = was

\* C5: removed-id suppression.  For every occurrence of a removed entity,
\* the rewritten text of its path has no x-ray anchor with the entity's id,
\* the original word stands unannotated in its place, and the X-Ray page
\* has no aside with the id.
C5_Suppression ==
    \A i \in 1..Len(entity_occurrences) :
        LET e == entity_occurrences[i]
        IN  e.path \in DOMAIN new_xhtml =>
                \A j \in 1..Len(e.occs) :
                    (e.occs[j].lemma = <<>> /\ e.occs[j].entity_id \in removed_entity_ids)
                        => /\ XRayOpen(e.occs[j].entity_id) \notin Range(new_xhtml[e.path])
                           /\ \A n \in 1..Len(x_ray_page) :
                                  x_ray_page[n].id # e.occs[j].entity_id
                           /\ WordInPlace(Books[book].files[e.path],
                                          new_xhtml[e.path], e.occs[j])

\* ------------------------------------------------------------------ C6

\* C6: lemma retroactive removal.  After modify_epub, every recorded lemma
\* whose gloss lookup returns no rows is no key of the lemma registry, has
\* no aside on the Word Wise page, and no glossing markup with its id is in
\* the rewritten text of any path.
C6_GlosslessRemoved ==
    pc = "done" =>
        \A n \in 1..Len(FirstMentions) :
            get_lemma_gloss(FirstMentions[n], Books[book].lemma_lang) = {}
                => /\ LemmaIndex(lemmas, FirstMentions[n]) = 0
                   /\ \A a \in 1..Len(word_wise_page) :
                          word_wise_page[a].lemma # FirstMentions[n]
                   /\ \A path \in DOMAIN new_xhtml :
                          /\ WordWiseOpen(n - 1) \notin Range(new_xhtml[path])
                          /\ RubyOpen(n - 1) \notin Range(new_xhtml[path])

\* ------------------------------------------------------------------ C7

\* C7: remove_entities(min_count) removes, and records the id of, exactly
\* the entities whose count is below min_count and that have neither a
\* cached description nor a custom entry; every other entity stays as it
\* is and its id is not recorded as removed.
C7_RemoveEntities ==
    [][(pc = "filter" /\ pc' # "filter") =>
          /\ \A i \in 1..Len(entities) :
                LET data == entities[i]
                IN  IF /\ data.count < prefs.minimal_x_ray_count
                       /\ data.name \notin cache
                       /\ data.name \notin DOMAIN custom_x_ray
                    THEN /\ \A j \in 1..Len(entities') :
                               /\ entities'[j].name # data.name
                               /\ entities'[j].id # data.id
                         /\ data.id \in removed_entity_ids'
                    ELSE /\ \E j \in 1..Len(entities') : entities'[j] = data
                         /\ data.id \notin removed_entity_ids'
          /\ \A j \in 1..Len(entities') :
                \E i \in 1..Len(entities) : entities[i] = entities'[j]]_vars

\* C7: remove_entities has run, removed an entity and kept another whose
\* count is below the minimum.
C7_Witness ==
    /\ pc = "x_ray"
    /\ removed_entity_ids # {}
    /\ \E i \in 1..Len(entities) : entities[i].count < prefs.minimal_x_ray_count

\* ------------------------------------------------------------------ C8

\* C8, as stated: every recorded mention of a custom name has its name as a
\* key of the registry, with the id the mention resolved to.
C8_CustomKeyRemains ==
    \A k \in 1..Len(Books[book].ents) :
        LET c == Books[book].ents[k]
        IN  (c.entity \in DOMAIN custom_x_ray /\ EntityMentionOccs(k) # <<>>)
                => /\ KeyIndex(entities, c.entity) # 0
                   /\ entities[KeyIndex(entities, c.entity)].id
                          = EntityMentionOccs(k)[1].entity_id

\* C8, amended: a mention of a custom name that is no key creates a new
\* entity with a fresh id, whatever keys would match it fuzzily; through
\* every later add_entity call the entity of a custom key stays in the
\* registry with its id, under the same key unless the call records a
\* name that is no custom name and a fuller form of the key with the same
\* label, which then replaces the key.
C8_CustomDistinct ==
    [][next_ent' # next_ent =>
          LET c == Books[book].ents[next_ent' - 1]
              eid == LastOccurrence(entity_occurrences', c.path).entity_id
          IN  /\ (c.entity \in DOMAIN custom_x_ray /\ KeyIndex(entities, c.entity) = 0)
                     => /\ entities' = Append(entities,
                                              [name |-> c.entity, id |-> entity_id,
                                               label |-> c.label, quote |-> c.quote,
                                               count |-> 1])
                        /\ \A i \in 1..Len(entities) : entities[i].id # entity_id
                        /\ entity_id' = entity_id + 1
                        /\ eid = entity_id
              /\ \A i \in 1..Len(entities) :
                    entities[i].name \in DOMAIN custom_x_ray =>
                        \E j \in 1..Len(entities') :
                            /\ entities'[j].id = entities[i].id
                            /\ \/ entities'[j].name = entities[i].name
                               \/ /\ entities'[j].name = c.entity
                                  /\ c.entity \notin DOMAIN custom_x_ray
                                  /\ FullerName(entities[i].name, c.entity)
                                  /\ entities[i].label = c.label
                                  /\ KeyIndex(entities', entities[i].name) = 0]_vars

\* C8: the custom name "Obama" created an entity, "Michelle Obama" took its
\* key, and a later "Obama" created another entity although both full names
\* match it fuzzily.
C8_Witness ==
    /\ Obama \in DOMAIN custom_x_ray
    /\ KeyIndex(entities, MichelleObama) # 0
    /\ entities[KeyIndex(entities, MichelleObama)].id = 0
    /\ KeyIndex(entities, BarackObama) # 0
    /\ KeyIndex(entities, Obama) # 0
    /\ entities[KeyIndex(entities, Obama)].id = 2

\* ------------------------------------------------------------------ C9

\* The ids in use: those of the entity occurrences are 0 .. counter - 1,
\* each of them is the id of exactly one entity or a removed id, and no
\* two entities share an id.
IdsInUse(ents, eo, counter, removed) ==
    /\ {EntityOccs(eo)[n].entity_id : n \in 1..Len(EntityOccs(eo))} = 0..(counter - 1)
    /\ {ents[i].id : i \in 1..Len(ents)} \cup removed = 0..(counter - 1)
    /\ {ents[i].id : i \in 1..Len(ents)} \cap removed = {}
    /\ \A i, j \in 1..Len(ents) : ents[i].id = ents[j].id => i = j

\* C9: entity ids are sequential and 0-based.  After every step the ids in
\* use are 0 .. entity_id - 1; the counter moves only by one, in an
\* add_entity call that creates an entity with the counter's old value as
\* id, an id no entity had; and an id stays with the entity it was given to
\* (promotion and remove_entities included).
C9_SequentialIds ==
    [][/\ IdsInUse(entities', entity_occurrences', entity_id', removed_entity_ids')
       /\ entity_id' # entity_id =>
              /\ entity_id' = entity_id + 1
              /\ next_ent' # next_ent
              /\ Len(entities') = Len(entities) + 1
              /\ entities'[Len(entities')].id = entity_id
              /\ entities'[Len(entities')].count = 1
              /\ \A i \in 1..Len(entities) : entities[i].id # entity_id
              /\ LastOccurrence(entity_occurrences',
                                Books[book].ents[next_ent' - 1].path).entity_id
                     = entity_id
       /\ \A i \in 1..Len(entities), j \in 1..Len(entities') :
              entities'[j].id = entities[i].id
                  => /\ entities'[j].quote = entities[i].quote
                     /\ entities'[j].label = entities[i].label]_vars

\* C9: two entities were created, the first was promoted to a full name
\* and the second removed by remove_entities.
C9_Witness ==
    /\ entity_id = 2
    /\ removed_entity_ids = {1}
    /\ Len(entities) = 1
    /\ entities[1].name = MichelleObama
    /\ entities[1].id = 0

\* ------------------------------------------------------------------ C10

\* C10: add_lemma is get-or-insert.  While mentions are recorded the
\* registry is the distinct lemmas recorded, in first-mention order, with
\* ids 0, 1, ...; later it is a part of that list with the same ids, in the
\* same order; and the Word Wise page lists the lemmas of the registry in
\* its order, each aside with the lemma's id.
C10_GetOrInsert ==
    /\ lemma_id = Len(FirstMentions)
    /\ pc = "ingest" =>
          lemmas = [n \in 1..Len(FirstMentions) |->
                       [lemma |-> FirstMentions[n], id |-> n - 1]]
    /\ \A i \in 1..Len(lemmas) :
          /\ lemmas[i].id \in 0..(lemma_id - 1)
          /\ lemmas[i].lemma = FirstMentions[lemmas[i].id + 1]
          /\ \A j \in (i + 1)..Len(lemmas) : lemmas[i].id < lemmas[j].id
    /\ pc \in {"opf", "zip", "done"} =>
          /\ Len(word_wise_page) = Len(lemmas)
          /\ \A i \in 1..Len(lemmas) :
                /\ word_wise_page[i].id = lemmas[i].id
                /\ word_wise_page[i].lemma = lemmas[i].lemma

\* C10: a lemma mentioned twice and a later one were recorded, the first
\* had no gloss, and the page lists the second alone, with id 1.
C10_Witness ==
    /\ pc = "done"
    /\ Len(FirstMentions) = 2
    /\ Len(SelectSeq(AllOccurrences, LAMBDA o : o.lemma # <<>>)) = 3
    /\ Len(word_wise_page) = 1
    /\ word_wise_page[1].id = 1

\* ------------------------------------------------------------------ C11

\* The occurrences of occs the loop of line 314 does not skip.
NotSkipped(occs) == SelectSeq(occs, LAMBDA o : o.entity_id \notin removed_entity_ids)

\* C11: for every rewritten path whose recorded occurrence list holds both
\* entity and lemma occurrences, the occurrences the rewriter went through
\* (those it skipped for a removed id left aside) are in non-decreasing
\* (paragraph_start, word_start) order.
C11_ReadingOrder ==
    \A i \in 1..Len(entity_occurrences) :
        LET e == entity_occurrences[i]
        IN  (/\ e.path \in DOMAIN processed
             /\ \E j \in 1..Len(e.occs) : e.occs[j].lemma = <<>>
             /\ \E j \in 1..Len(e.occs) : e.occs[j].lemma # <<>>)
                => \A m \in 1..(Len(NotSkipped(processed[e.path])) - 1) :
                       KeyLessEq(NotSkipped(processed[e.path])[m],
                                 NotSkipped(processed[e.path])[m + 1])

\* ------------------------------------------------------------------ C12

\* The paths of the book that have no recorded occurrence.
PathsWithoutOccurrences ==
    {p \in 1..Len(Books[book].files) :
        \A i \in 1..Len(entity_occurrences) : entity_occurrences[i].path # p}

\* C12: a rewritten path all of whose occurrences were skipped for a
\* removed id has the original text as new_xhtml_str, symbol for symbol;
\* a path without occurrences is not rewritten and its file is as it was.
C12_NoOccurrenceIdentity ==
    /\ \A p \in DOMAIN new_xhtml :
          NotSkipped(processed[p]) = <<>> => new_xhtml[p] = Books[book].files[p]
    /\ \A p \in PathsWithoutOccurrences :
          p \notin DOMAIN new_xhtml /\ files[p] = Books[book].files[p]

\* C12: a rewritten path whose occurrences were all skipped and whose
\* text holds character references.
C12_Witness ==
    /\ pc = "done"
    /\ \E p \in DOMAIN new_xhtml :
          /\ processed[p] # <<>>
          /\ NotSkipped(processed[p]) = <<>>
          /\ "&" \in Range(new_xhtml[p])

\* ------------------------------------------------------------------ C13

\* The number of positions of text that hold sym.
Copies(text, sym) == Cardinality({i \in 1..Len(text) : text[i] = sym})

\* The css rules the rewriter of this run generated: the Word Wise rules
\* when lemmas were recorded, the link rules when the preference is set.
GeneratedCss ==
    IF lemma_id > 0 \/ prefs.remove_link_styles
    THEN StyleTag(lemma_id > 0, prefs.remove_link_styles)
    ELSE ""

\* C13: a written file holds at most one copy of the style block the run
\* generated, also when the text it was written from held the block already.
C13_CssInjectedOnce ==
    \A p \in DOMAIN new_xhtml : Copies(files[p], GeneratedCss) <= 1

\* ------------------------------------------------------------------ C14

\* C14: the rewriter writes no file that lacks the epub namespace, or that
\* lacks the style block when the run generated css rules: a text without
\* the marker the edit needs is not written.
C14_NoSilentOmission ==
    \A p \in DOMAIN new_xhtml :
        /\ HtmlEpubTag \in Range(files[p])
        /\ GeneratedCss # "" => GeneratedCss \in Range(files[p])

\* ------------------------------------------------------------------ C15

\* C15: the book is replaced only by a run that went through every step.
\* While the book is replaced the run went through zip_extract_folder's
\* replace, every path with occurrences
\* was rewritten, the footnote pages of the non-empty registries were
\* written and the manifest names them; a run that failed left the
\* original book.
C15_AtomicReplace ==
    /\ book_file \in {"original", "annotated"}
    /\ pc = "failed" => book_file = "original"
    /\ pc \notin {"done", "failed_cleanup"} => book_file = "original"
    /\ book_file = "annotated" =>
          /\ DOMAIN new_xhtml
                 = {entity_occurrences[i].path : i \in 1..Len(entity_occurrences)}
          /\ entities # <<>> => Len(x_ray_page) = Len(entities)
          /\ lemmas # <<>> => Len(word_wise_page) = Len(lemmas)
          /\ manifest = (IF entities # <<>> THEN {"x_ray.xhtml"} ELSE {})
                            \cup (IF lemmas # <<>> THEN {"word_wise.xhtml"} ELSE {})

\* C15: a run that failed after the files were rewritten and the manifest
\* was patched, with the original book still in place.
C15_Witness ==
    /\ pc = "failed"
    /\ DOMAIN new_xhtml # {}
    /\ manifest # {}
    /\ book_file = "original"

\* ------------------------------------------------------------------ C16

\* The steps of modify_epub that come after create_x_ray_footnotes.
AfterXRay == {"rewrite", "word_wise", "opf", "zip", "done"}

OccurrencePaths(eo) == {eo[i].path : i \in 1..Len(eo)}

\* C17: an add_entity call whose surface form is a key of the registry
\* counts the mention on that entity and on no other, leaves every key, id,
\* label and quote and the id counter as they were, and appends to the
\* path's occurrences one occurrence carrying that entity's id; the
\* occurrences of the other paths and the lemma registry stay.
C17_ExactMatchFrame ==
    [][next_ent' # next_ent =>
          LET c == Books[book].ents[next_ent' - 1]
              k == KeyIndex(entities, c.entity)
              before == OccsAt(entity_occurrences, c.path)
              after == OccsAt(entity_occurrences', c.path)
          IN  k # 0 =>
                /\ entities' = [entities EXCEPT ![k].count = entities[k].count + 1]
                /\ {entities'[i].name : i \in 1..Len(entities')}
                       = {entities[i].name : i \in 1..Len(entities)}
                /\ entity_id' = entity_id
                /\ Len(after) = Len(before) + 1
                /\ SubSeq(after, 1, Len(before)) = before
                /\ after[Len(after)].entity_id = entities[k].id
                /\ after[Len(after)].word_start = c.ws
                /\ \A p \in OccurrencePaths(entity_occurrences) \ {c.path} :
                      OccsAt(entity_occurrences', p) = OccsAt(entity_occurrences, p)
                /\ lemmas' = lemmas /\ lemma_id' = lemma_id]_vars

\* C17: the second "Al" of the second book was recorded after "Tom" and the
\* first "Al": it hit the key "Al".
C17_Witness ==
    /\ book = 2
    /\ pc = "ingest"
    /\ Len(entities) = 2
    /\ entities[1].name = Tom /\ entities[1].count = 1 /\ entities[1].id = 0
    /\ entities[2].name = Al /\ entities[2].count = 2 /\ entities[2].id = 1
    /\ entity_id = 2

\* ------------------------------------------------------------------ C18

\* C18: an add_entity call whose surface form is no key and no custom name
\* resolves to an existing entity exactly when a key scores at or above
\* FUZZ_THRESHOLD, and then to an entity whose key has the highest score,
\* which gets one more count while the registry keeps its size and the id
\* counter stays; when no key reaches the threshold the registry gets a new
\* last entity under the mention's name, label and quote, with count 1 and
\* the counter's id, and the counter moves by one.  A mention recorded into
\* the empty registry creates the entity with id 0.
C18_FuzzyOrCreate ==
    [][next_ent' # next_ent =>
          LET c == Books[book].ents[next_ent' - 1]
              eid == LastOccurrence(entity_occurrences', c.path).entity_id
              score == [i \in 1..Len(entities) |->
                           token_set_ratio(c.entity, entities[i].name)]
              reach == {i \in 1..Len(entities) : score[i] >= FUZZ_THRESHOLD * 1000}
              created ==
                  /\ entities' = Append(entities,
                                        [name |-> c.entity, id |-> entity_id,
                                         label |-> c.label, quote |-> c.quote,
                                         count |-> 1])
                  /\ eid = entity_id
                  /\ entity_id' = entity_id + 1
              merged(b) ==
                  /\ eid = entities[b].id
                  /\ Len(entities') = Len(entities)
                  /\ entity_id' = entity_id
                  /\ \E n \in 1..Len(entities') :
                        /\ entities'[n].id = eid
                        /\ entities'[n].count = entities[b].count + 1
          IN  /\ (c.entity \notin DOMAIN custom_x_ray /\ KeyIndex(entities, c.entity) = 0)
                    => /\ reach # {} =>
                             \E b \in reach : /\ \A j \in 1..Len(entities) : score[j] <= score[b]
                                              /\ merged(b)
                       /\ reach = {} => created
              /\ entities = <<>> => created /\ eid = 0]_vars

\* C18: in the first book "Barack Obama" created entity 0, "Paris" scored
\* under the threshold against it and created entity 1, and "Obama" was
\* merged into the better-scoring of the two keys.
C18_Witness ==
    /\ book = 1
    /\ custom_x_ray = <<>>
    /\ Len(entities) = 2
    /\ entities[1].name = BarackObama /\ entities[1].id = 0 /\ entities[1].count = 2
    /\ entities[2].name = Paris /\ entities[2].id = 1 /\ entities[2].count = 1
    /\ entity_id = 2

\* ------------------------------------------------------------------ C19

\* sub is seq without some of its elements, the others in their order.
IsSubsequence(sub, seq) ==
    \E keep \in SUBSET (1..Len(seq)) :
        LET idx == SelectSeq([i \in 1..Len(seq) |-> i], LAMBDA i : i \in keep)
        IN  sub = [n \in 1..Len(idx) |-> seq[idx[n]]]

\* C19: remove_entities does not renumber.  The entities it leaves are
\* entities of the registry before it, with their key, id, label, quote
\* and count, in their order; the id counter, the occurrence lists and the
\* lemma registry are as before.  Over every step the removed-id set only
\* grows and holds no id of an entity of the registry.
C19_NoRenumbering ==
    [][/\ removed_entity_ids \subseteq removed_entity_ids'
       /\ \A i \in 1..Len(entities') : entities'[i].id \notin removed_entity_ids'
       /\ pc = "filter" =>
             /\ IsSubsequence(entities', entities)
             /\ entity_id' = entity_id
             /\ entity_occurrences' = entity_occurrences
             /\ lemmas' = lemmas
             /\ lemma_id' = lemma_id]_vars

\* C19: the filter removed the entity with id 0 and left one with a higher
\* id, and occurrences of the removed id are still recorded.
C19_Witness ==
    /\ pc = "x_ray"
    /\ 0 \in removed_entity_ids
    /\ \E i \in 1..Len(entities) : entities[i].id > 0
    /\ \E i \in 1..Len(AllOccurrences) :
          AllOccurrences[i].lemma = <<>> /\ AllOccurrences[i].entity_id = 0

\* ------------------------------------------------------------------ C20

\* C20: insert_anchor_elements leaves the entity registry, the removed-id
\* set, both id counters and the occurrence lists as they were; the lemma
\* registry after it is the one before it without some lemmas, the others
\* with their ids and in their order; every lemma it dropped has no gloss.
C20_FrozenRegistry ==
    [][pc = "rewrite" =>
          /\ entities' = entities
          /\ removed_entity_ids' = removed_entity_ids
          /\ entity_id' = entity_id
          /\ lemma_id' = lemma_id
          /\ entity_occurrences' = entity_occurrences
          /\ IsSubsequence(lemmas', lemmas)
          /\ \A i \in 1..Len(lemmas) :
                LemmaIndex(lemmas', lemmas[i].lemma) = 0
                    => get_lemma_gloss(lemmas[i].lemma, Books[book].lemma_lang) = {}]_vars

\* C20: the rewriter ran over a book with entities and a removed id,
\* dropped the first lemma of the registry and kept a later one.
C20_Witness ==
    /\ pc = "word_wise"
    /\ entities # <<>>
    /\ removed_entity_ids # {}
    /\ lemmas # <<>>
    /\ \A i \in 1..Len(lemmas) : lemmas[i].id > 0

\* ------------------------------------------------------------------ C21

\* C21: the steps of modify_epub are ordered.  When remove_entities runs
\* the cache holds everything the knowledge base has on the registry's
\* names and no page or region has been written; a step that writes the
\* X-Ray page or a region finds a registry remove_entities has finished
\* with (no entity left that meets its test when the minimum is above 1)
\* and leaves the removed-id set alone; the step that writes the Word Wise
\* page finds every path with occurrences rewritten, changes neither the
\* regions nor the lemma registry, and lists the lemmas of the registry as
\* the rewriter left it, no other.
C21_StepOrder ==
    [][/\ pc = "filter" =>
             /\ cache = {entities[i].name : i \in 1..Len(entities)} \cap KnowledgeBase
             /\ x_ray_page = <<>> /\ word_wise_page = <<>>
             /\ DOMAIN new_xhtml = {}
       /\ (x_ray_page' # x_ray_page \/ new_xhtml' # new_xhtml) =>
             /\ pc \notin {"query", "filter"}
             /\ prefs.minimal_x_ray_count > 1 =>
                   \A i \in 1..Len(entities) :
                       ~(/\ entities[i].count < prefs.minimal_x_ray_count
                         /\ entities[i].name \notin cache
                         /\ entities[i].name \notin DOMAIN custom_x_ray)
             /\ removed_entity_ids' = removed_entity_ids
             /\ entities' = entities
       /\ new_xhtml' # new_xhtml =>
             /\ entities # <<>> => Len(x_ray_page) = Len(entities)
             /\ word_wise_page = <<>>
       /\ word_wise_page' # word_wise_page =>
             /\ DOMAIN new_xhtml = OccurrencePaths(entity_occurrences)
             /\ new_xhtml' = new_xhtml
             /\ lemmas' = lemmas
             /\ Len(word_wise_page') = Len(lemmas)
             /\ \A i \in 1..Len(lemmas) :
                   /\ word_wise_page'[i].lemma = lemmas[i].lemma
                   /\ word_wise_page'[i].id = lemmas[i].id]_vars

\* C21: a run that queried, removed an entity, wrote the X-Ray page,
\* rewrote the regions and dropped a lemma while doing so, and then wrote a
\* Word Wise page.
C21_Witness ==
    /\ pc = "done"
    /\ cache # {}
    /\ removed_entity_ids # {}
    /\ x_ray_page # <<>>
    /\ word_wise_page # <<>>
    /\ Len(lemmas) < lemma_id

\* ------------------------------------------------------------------ C22

\* A lemma occurrence whose gloss lookup returns no rows.
Glossless(o) ==
    /\ o.lemma # <<>>
    /\ get_lemma_gloss(o.lemma, Books[book].lemma_lang) = {}

\* self.lemmas when the loop of line 302 reaches the i-th path.
RECURSIVE LemmasBefore(_)
LemmasBefore(i) ==
    IF i = 1 THEN lemmas
    ELSE RewriteRegion(files[entity_occurrences[i - 1].path],
                       entity_occurrences[i - 1].occs, LemmasBefore(i - 1),
                       Books[book].lemma_lang).lemmas

\* C22: a lemma occurrence without a gloss is reverted to plain text.  The
\* text insert_anchor_elements makes of a path is the text it makes of the
\* same file, with the same registries, from the path's occurrences without
\* the glossless lemma occurrences.
C22_GlosslessIsPlain ==
    [][pc = "rewrite" =>
          \A i \in 1..Len(entity_occurrences) :
              LET e == entity_occurrences[i]
              IN  new_xhtml'[e.path]
                      = RewriteRegion(files[e.path],
                                      SelectSeq(e.occs, LAMBDA o : ~Glossless(o)),
                                      LemmasBefore(i),
                                      Books[book].lemma_lang).text]_vars

\* ------------------------------------------------------------------ C23

\* The Word Wise markup for the lemma id lid in text: anchors and ruby
\* wrappers.
WordWiseMarkup(text, lid) == Copies(text, WordWiseOpen(lid)) + Copies(text, RubyOpen(lid))

\* C23: the removed-id set suppresses entity occurrences only.  After
\* modify_epub, for every path and every recorded lemma with a gloss, the
\* rewritten text of the path holds one piece of Word Wise markup with the
\* lemma's id for each occurrence of the lemma recorded on the path,
\* whichever ids are in the removed-id set.
C23_LemmasNotSuppressed ==
    pc = "done" =>
        \A e \in Range(entity_occurrences) :
            \A n \in 1..Len(FirstMentions) :
                get_lemma_gloss(FirstMentions[n], Books[book].lemma_lang) # {}
                    => WordWiseMarkup(new_xhtml[e.path], n - 1)
                           = Len(SelectSeq(e.occs, LAMBDA o : o.lemma = FirstMentions[n]))

\* ------------------------------------------------------------------ C24

\* C24: in every state no two entries of the entity registry have the same
\* key or the same id, and no two asides of the X-Ray page have the same
\* id.
C24_OneKeyPerId ==
    /\ \A i, j \in 1..Len(entities) :
          (entities[i].id = entities[j].id \/ entities[i].name = entities[j].name)
              => i = j
    /\ \A i, j \in 1..Len(x_ray_page) : x_ray_page[i].id = x_ray_page[j].id => i = j

\* C24: an entity was promoted to a fuller name (its key is not the name
\* of the mention its quote comes from), another was removed, and the
\* X-Ray page was written.
C24_Witness ==
    /\ pc = "done"
    /\ removed_entity_ids # {}
    /\ x_ray_page # <<>>
    /\ \E i \in 1..Len(entities) :
          \E k \in 1..Len(Books[book].ents) :
              /\ Books[book].ents[k].quote = entities[i].quote
              /\ Books[book].ents[k].entity # entities[i].name

\* ------------------------------------------------------------------ C25

\* The ids of the asides of a footnote page.
AsideIds(page) == {page[i].id : i \in 1..Len(page)}

\* C25: anchors never dangle.  In every state the id of a recorded entity
\* occurrence is the id of an entity of the registry or a removed id.
\* After modify_epub every x-ray anchor of a rewritten text carries the id
\* of an aside of the X-Ray page, and every piece of Word Wise markup
\* carries the id of an aside of the Word Wise page and of a lemma still in
\* the registry.
C25_NoDanglingAnchor ==
    /\ \A n \in 1..Len(EntityOccs(entity_occurrences)) :
          EntityOccs(entity_occurrences)[n].entity_id
              \in {entities[i].id : i \in 1..Len(entities)} \cup removed_entity_ids
    /\ pc = "done" =>
          \A p \in DOMAIN new_xhtml :
              /\ \A n \in 1..Len(XRayAnchors(new_xhtml[p])) :
                    XRayAnchors(new_xhtml[p])[n].id \in AsideIds(x_ray_page)
              /\ \A lid \in 0..lemma_id :
                    WordWiseMarkup(new_xhtml[p], lid) > 0
                        => /\ lid \in AsideIds(word_wise_page)
                           /\ lid \in {lemmas[i].id : i \in 1..Len(lemmas)}

\* C25: a finished run whose text has an x-ray anchor and Word Wise markup,
\* after an entity was removed and a lemma dropped.
C25_Witness ==
    /\ pc = "done"
    /\ removed_entity_ids # {}
    /\ Len(lemmas) < lemma_id
    /\ \E p \in DOMAIN new_xhtml :
          /\ XRayAnchors(new_xhtml[p]) # <<>>
          /\ \E lid \in 0..lemma_id : WordWiseMarkup(new_xhtml[p], lid) > 0

====
